---- MODULE Spec2Model ----
(***************************************************************************)
(* QuietDesk request processing (backend/routes_processing.py) together     *)
(* with the handlers that create the rows it reads: onboarding             *)
(* (routes_auth.py), API key settings (routes_settings.py) and request     *)
(* submission (routes_dashboard.py).                                       *)
(*                                                                         *)
(* The server is a single asyncio event loop.  A coroutine is suspended    *)
(* only at an await that really waits, and in process_request_async those  *)
(* are the database calls (db.execute, db.commit): call_openai and         *)
(* call_anthropic use the synchronous provider clients, so "await          *)
(* call_ai(...)" never yields.  Each action of a background task is        *)
(* therefore: the awaited database call takes effect, then the code up to  *)
(* the next database call runs without interruption.                       *)
(***************************************************************************)
EXTENDS Integers, Sequences, FiniteSets, Bags, TLC

\* Number of POST /api/processing/process calls made on the request.
MaxCalls == 2
\* Number of PUT /api/settings/api-keys calls.
MaxKeyUpdates == 1

----------------------------------------------------------------------------
(* Model identifiers are character sequences, so that str.startswith is    *)
(* computed and not assumed.                                               *)

GPT_4_TURBO == <<"g", "p", "t", "-", "4", "-", "t", "u", "r", "b", "o">>
CLAUDE_PREFIX == <<"c", "l", "a", "u", "d", "e">>

startswith(s, prefix) ==
    /\ Len(s) >= Len(prefix)
    /\ SubSeq(s, 1, Len(prefix)) = prefix

\* QUIETDESK_TEAM: the seven team members every new user gets.
QUIETDESK_TEAM ==
    << [role |-> "project_manager", name |-> "Quincy", title |-> "Project Manager",
        is_lead |-> TRUE, model |-> GPT_4_TURBO],
       [role |-> "product_manager", name |-> "Jordan", title |-> "Product Manager",
        is_lead |-> FALSE, model |-> GPT_4_TURBO],
       [role |-> "technical_advisor", name |-> "Sam", title |-> "Technical Advisor",
        is_lead |-> FALSE, model |-> GPT_4_TURBO],
       [role |-> "qa_engineer", name |-> "Riley", title |-> "QA Engineer",
        is_lead |-> FALSE, model |-> GPT_4_TURBO],
       [role |-> "ux_expert", name |-> "Morgan", title |-> "UX Expert",
        is_lead |-> FALSE, model |-> GPT_4_TURBO],
       [role |-> "marketing_consultant", name |-> "Taylor", title |-> "Marketing Consultant",
        is_lead |-> FALSE, model |-> GPT_4_TURBO],
       [role |-> "research_analyst", name |-> "Casey", title |-> "Research Analyst",
        is_lead |-> FALSE, model |-> GPT_4_TURBO] >>

\* REQUEST_TYPE_TEAM: request type -> roles to consult.
REQUEST_TYPE_TEAM ==
    [roadmap  |-> <<"product_manager", "technical_advisor">>,
     analysis |-> <<"research_analyst", "product_manager">>,
     audit    |-> <<"qa_engineer", "ux_expert", "technical_advisor">>,
     review   |-> <<"product_manager", "ux_expert">>,
     research |-> <<"research_analyst">>,
     custom   |-> <<>>]

\* create_request: the request types it accepts.
valid_types == {"roadmap", "analysis", "audit", "review", "research", "custom"}

\* The keys a user may store.
OPENAI_KEY == "sk-openai"
ANTHROPIC_KEY == "sk-ant"

\* crypto.py.  A stored key is <<>> (None or "") or the Fernet token of a key.
encrypt_api_key(api_key) ==
    IF api_key = "" THEN <<>> ELSE <<"fernet", api_key>>

decrypt_api_key(encrypted_key) ==
    IF encrypted_key = <<>> THEN "" ELSE encrypted_key[2]

\* json.dumps / json.loads of the list of contributing roles; a column that
\* was never written holds JSON_NONE.
json_dumps(roles) == <<"json", roles>>
json_loads(text) == text[2]
JSON_NONE == <<"none", <<>> >>

\* inp['role'].replace('_', ' ').title() on the roles of the team.
role_title(role) ==
    CASE role = "project_manager" -> "Project Manager"
      [] role = "product_manager" -> "Product Manager"
      [] role = "technical_advisor" -> "Technical Advisor"
      [] role = "qa_engineer" -> "Qa Engineer"
      [] role = "ux_expert" -> "Ux Expert"
      [] role = "marketing_consultant" -> "Marketing Consultant"
      [] role = "research_analyst" -> "Research Analyst"

----------------------------------------------------------------------------
VARIABLES
    user,             \* the users row of the one user
    team_members,     \* the user's team_members rows (a sequence, insertion order)
    request,          \* the requests row of the one request
    deliverables,     \* the deliverables rows, in insertion order
    request_messages, \* the request_messages rows (a bag)
    tasks,            \* the trigger_processing calls made and their background
                      \* tasks (a bag: two tasks in the same state are two copies)
    now,              \* the clock read by datetime.utcnow()
    key_updates,      \* the PUT /api/settings/api-keys calls made
    compaction,       \* one use of summarize_messages_for_context: its
                      \* arguments, its result, and the result of a second
                      \* call on that result
    composition,      \* one use of compose_instructions and
                      \* replace_instruction_variables: the rows and names
                      \* they read, and their results
    context,          \* the memories rows, and one chat request's way from
                      \* get_memories_for_employee to its system prompt
    stream,           \* one streamed response: the generator's position, the
                      \* provider's calls and chunks, the events yielded
    turn,             \* one POST /api/chat: its request, the locals of the
                      \* handler, its answer, the provider calls made for it
    personas,         \* the role_templates rows, the user's employees rows,
                      \* and the last answer of a template-info request
    suggestions       \* the user's memory_suggestions rows, the memories rows
                      \* made from them, and the clock of resolved_at

\* The variables of the chat pipeline (routes_chat.py) and of the routes of
\* employees, role templates and memory suggestions; request processing does
\* not touch them.
chat_vars == <<compaction, composition, context, stream, turn, personas, suggestions>>

vars == <<user, team_members, request, deliverables, request_messages, tasks, now,
          key_updates>>

\* A requests row before the request is submitted.
NoRequest ==
    [exists |-> FALSE, status |-> "", request_type |-> "", started_at |-> 0,
     completed_at |-> 0, team_involved |-> JSON_NONE]

NoUser == [exists |-> FALSE, openai_api_key |-> <<>>, anthropic_api_key |-> <<>>]

\* The locals of a background task before it runs: req is the session's
\* Request object, dirty its changed attributes, pending the objects added to
\* the session, usr the User object, idx the position in roles_to_consult,
\* exc the exception caught by "except Exception", handler_failed whether the
\* handler's own "except: pass" caught one, ai_calls the provider calls call_ai
\* has made, in order.
NewTask ==
    [pc |-> "scheduled", http |-> 200, req |-> NoRequest, dirty |-> {},
     pending |-> <<>>, usr |-> NoUser, idx |-> 0, team_inputs |-> <<>>,
     deliverable_content |-> <<>>, exc |-> "", handler_failed |-> FALSE,
     ai_calls |-> <<>>]

\* No use of the chat pipeline has been made.
NoCompaction ==
    [phase |-> "input", messages |-> <<>>, max_tokens |-> 8000, model |-> <<>>,
     result |-> <<>>, again |-> <<>>]

\* No RoleTemplate row is linked to the employee (role_template = None).
NoTemplate == [linked |-> FALSE, instructions |-> <<>>]

\* The rows and names of a chat before anything is set. None and the empty
\* string are both the empty text: every test of these fields in
\* compose_instructions and replace_instruction_variables is a truth test.
NoComposition ==
    [phase |-> "input",
     employee |-> [name |-> <<>>, instructions |-> <<>>, user_instructions |-> <<>>],
     role_template |-> NoTemplate,
     user_name |-> <<>>, project_name |-> <<>>,
     composed_instructions |-> <<>>, base_instructions |-> <<>>,
     transparency |-> [asked |-> FALSE, composed_instructions |-> <<>>,
                       sources |-> <<>>]]

\* No memories rows, no chat request. project_id 0 is None.
NoContext ==
    [phase |-> "rows", memories |-> {}, project_id |-> 0,
     memories_for_employee |-> <<>>,
     base_instructions |-> <<>>, project_instructions |-> <<>>,
     files |-> <<>>, google_refresh_token |-> FALSE, system_prompt |-> <<>>]

\* No StreamingResponse has been returned.
NoStream ==
    [pc |-> "idle", provider |-> "none", provider_calls |-> 0, chunks |-> <<>>,
     raised |-> FALSE, events |-> <<>>]

\* No chat request has been received.  employee_id and project_id 0 are ids
\* not sent; status_code 0 is no answer yet.
NoTurn ==
    [pc |-> "idle",
     request |-> [employee_id |-> 0, project_id |-> 0, model_override |-> <<>>],
     db_user |-> NoUser, status_code |-> 0, model |-> <<>>, provider |-> "none",
     api_key |-> "", max_tokens |-> 0, project_found |-> FALSE,
     usage_logs |-> <<>>, provider_calls |-> <<>>]

\* The tables before the first start of the application: no role_templates
\* row (version 0), no employees row.  A template's id is its slug; a name
\* is the sequence of its pieces, instructions are a text and the edition of
\* the built-in templates it is from (0 for none); role_template <<>>,
\* role_template_version 0 and instructions <<"", 0>> are None.  answer is
\* the answer to the last request, employee_id the employee a template-info
\* request was about (0 for another request).
NoPersonas ==
    [role_templates |-> [slug \in {"project-manager", "qa-engineer"} |->
                            [version |-> 0, instructions |-> <<"", 0>>,
                             is_default |-> FALSE]],
     employees |-> <<>>, created |-> 0,
     answer |-> [status_code |-> 0, employee_id |-> 0, update_available |-> FALSE]]

\* No memory_suggestions row, no memories row made from one; utcnow is the
\* clock, answer the answer to the last approve or reject request.
NoSuggestions ==
    [rows |-> <<>>, memories |-> <<>>, utcnow |-> 1,
     answer |-> [status_code |-> 0, done |-> <<>>, failed |-> <<>>]]

ChatIdle ==
    /\ compaction = NoCompaction
    /\ composition = NoComposition
    /\ context = NoContext
    /\ stream = NoStream
    /\ turn = NoTurn
    /\ personas = NoPersonas
    /\ suggestions = NoSuggestions

\* Nothing exists before the first login.
NoRows ==
    /\ user = NoUser
    /\ team_members = <<>>
    /\ request = NoRequest
    /\ deliverables = <<>>
    /\ request_messages = EmptyBag
    /\ tasks = EmptyBag
    /\ now = 1
    /\ key_updates = 0

Init == NoRows /\ ChatIdle

----------------------------------------------------------------------------
(* Helpers of routes_processing.py                                         *)

\* call_ai: the provider a model identifier is routed to.
call_ai_provider(model) ==
    IF startswith(model, CLAUDE_PREFIX) THEN "anthropic" ELSE "openai"

\* get_api_key_for_model; "" stands for None (both are falsy at the callers).
get_api_key_for_model(usr, model) ==
    IF startswith(model, CLAUDE_PREFIX)
    THEN IF usr.anthropic_api_key # <<>>
         THEN decrypt_api_key(usr.anthropic_api_key) ELSE ""
    ELSE IF usr.openai_api_key # <<>>
         THEN decrypt_api_key(usr.openai_api_key) ELSE ""

\* team_members = {tm.role: tm for tm in ...}: lookups in that dict.
has_role(team, role) == \E i \in 1 .. Len(team) : team[i].role = role
member(team, role) == team[CHOOSE i \in 1 .. Len(team) : team[i].role = role]

\* A faulty consult_team_member, for comparison: the opinion of a provider
\* exception is not marked as an error.
consult_team_member_unmarked(usr, team_member, outcome) ==
    IF get_api_key_for_model(usr, team_member.model) = ""
    THEN [role |-> team_member.role, name |-> team_member.name,
          input |-> <<"unable to contribute - no API key configured", team_member.name>>,
          error |-> TRUE]
    ELSE IF outcome = "ok"
    THEN [role |-> team_member.role, name |-> team_member.name,
          input |-> <<"response", team_member.name>>, error |-> FALSE]
    ELSE [role |-> team_member.role, name |-> team_member.name,
          input |-> <<"encountered an error", team_member.name>>, error |-> FALSE]

\* consult_team_member.  outcome is what the provider call does when it is
\* made: "ok" (a response) or "raise" (any exception).
consult_team_member(usr, team_member, outcome) ==
    IF get_api_key_for_model(usr, team_member.model) = ""
    THEN [role |-> team_member.role, name |-> team_member.name,
          input |-> <<"unable to contribute - no API key configured", team_member.name>>,
          error |-> TRUE]
    ELSE IF outcome = "ok"
    THEN [role |-> team_member.role, name |-> team_member.name,
          input |-> <<"response", team_member.name>>, error |-> FALSE]
    ELSE [role |-> team_member.role, name |-> team_member.name,
          input |-> <<"encountered an error", team_member.name>>, error |-> TRUE]

\* The RequestMessage consult_team_member adds to the session on success.
internal_msg(inp) ==
    [table |-> "request_messages",
     row |-> [sender_name |-> inp.name, is_internal |-> TRUE,
              team_member_role |-> inp.role]]

\* A faulty roles_to_consult, for comparison: no fallback for an empty entry.
roles_to_consult_no_fallback(request_type) ==
    IF request_type \in DOMAIN REQUEST_TYPE_TEAM
    THEN REQUEST_TYPE_TEAM[request_type] ELSE <<>>

\* process_request_async: roles_to_consult for a request type.
roles_to_consult(request_type) ==
    LET roles == IF request_type \in DOMAIN REQUEST_TYPE_TEAM
                 THEN REQUEST_TYPE_TEAM[request_type] ELSE <<>>
    IN  IF roles = <<>> THEN <<"product_manager", "research_analyst">> ELSE roles

\* A faulty loop, for comparison: it ends after the first consultation.
next_consulted_first_only(roles, team, i) ==
    IF i = 0 /\ roles # <<>> THEN 1 ELSE Len(roles) + 1

\* The loop "for role in roles_to_consult: if role in team_members and
\* role != 'project_manager'": the next position after i whose role is
\* consulted, Len(roles) + 1 when the loop is over.
next_consulted(roles, team, i) ==
    LET later == {j \in (i + 1) .. Len(roles) :
                    has_role(team, roles[j]) /\ roles[j] # "project_manager"}
    IN  IF later = {} THEN Len(roles) + 1
        ELSE CHOOSE j \in later : \A k \in later : j <= k

\* contributing_roles = [inp["role"] for inp in team_inputs if not inp.get("error")]
RECURSIVE contributing_roles(_)
contributing_roles(team_inputs) ==
    IF team_inputs = <<>> THEN <<>>
    ELSE (IF Head(team_inputs).error THEN <<>> ELSE <<Head(team_inputs).role>>)
         \o contributing_roles(Tail(team_inputs))

\* A faulty quincy_synthesize prompt, for comparison: the opinions with an
\* error are not left out.
team_contributions_all(team_inputs) ==
    [i \in 1 .. Len(team_inputs) |->
        [name |-> team_inputs[i].name,
         role |-> role_title(team_inputs[i].role),
         input |-> team_inputs[i].input]]

\* quincy_synthesize: the "Team Contributions" part of the synthesis prompt,
\* one "### name (Role):\n input" block per opinion without error.
RECURSIVE team_contributions(_)
team_contributions(team_inputs) ==
    IF team_inputs = <<>> THEN <<>>
    ELSE (IF Head(team_inputs).error THEN <<>>
          ELSE << [name |-> Head(team_inputs).name,
                   role |-> role_title(Head(team_inputs).role),
                   input |-> Head(team_inputs).input] >>)
         \o team_contributions(Tail(team_inputs))

\* quincy_synthesize: the HTTPException of a missing key, an exception of the
\* provider call, or the provider's response.
quincy_synthesize(usr, quincy, team_inputs, outcome) ==
    IF get_api_key_for_model(usr, quincy.model) = "" THEN "HTTPException 402"
    ELSE IF outcome = "ok" THEN "response" ELSE "provider error"

\* The provider's answer to a synthesis prompt: an opaque text that depends on
\* the prompt.
synthesis_response(request_type, contributions) ==
    <<"deliverable text", request_type, contributions>>

----------------------------------------------------------------------------
(* The SQLAlchemy session of a background task.  s.req is the Request      *)
(* object of the session, s.dirty the attributes whose value differs from  *)
(* the loaded one, s.pending the objects added with db.add.  A commit      *)
(* UPDATEs the dirty columns only and INSERTs the pending rows; the        *)
(* session is made with expire_on_commit=False, so s.req is not reloaded.  *)

set_attr(s, attr, value) ==
    [s EXCEPT !.req = [@ EXCEPT ![attr] = value],
              !.dirty = IF s.req[attr] = value THEN @ ELSE @ \cup {attr}]

flushed_request(row, s) ==
    [a \in DOMAIN row |-> IF a \in s.dirty THEN s.req[a] ELSE row[a]]

RECURSIVE rows_of(_, _)
rows_of(pending, table) ==
    IF pending = <<>> THEN <<>>
    ELSE (IF Head(pending).table = table THEN <<Head(pending).row>> ELSE <<>>)
         \o rows_of(Tail(pending), table)

RECURSIVE bag_of(_)
bag_of(rows) ==
    IF rows = <<>> THEN EmptyBag
    ELSE SetToBag({Head(rows)}) (+) bag_of(Tail(rows))

\* The bag of tasks with task s moved to state s2.
moved(s, s2) == (tasks (-) SetToBag({s})) (+) SetToBag({s2})

\* The session of task s after a commit: nothing dirty, nothing pending.
committed(s) == [s EXCEPT !.dirty = {}, !.pending = <<>>]

\* await db.commit() of task s takes effect; s2 is the task when it awaits its
\* next database call (or is done).
commit(s, s2) ==
    /\ request' = flushed_request(request, s)
    /\ deliverables' = deliverables \o rows_of(s.pending, "deliverables")
    /\ request_messages' =
          request_messages (+) bag_of(rows_of(s.pending, "request_messages"))
    /\ tasks' = moved(s, s2)


----------------------------------------------------------------------------
(* HTTP handlers                                                           *)

\* routes_auth.google_callback for a new user: the users row is committed,
\* then create_quietdesk_team adds the seven members and commits once.  When
\* that commit fails (team_ok = FALSE) the user exists without a team, and a
\* later login takes the "existing user" branch, which creates none.  The
\* default Project Manager employee is committed before the team is made.
google_callback(team_ok) ==
    /\ ~user.exists
    /\ user' = [user EXCEPT !.exists = TRUE]
    /\ personas' = [personas EXCEPT
          !.created = @ + 1,
          !.employees = Append(@,
              [id |-> personas.created + 1, name |-> <<"Project Manager">>,
               instructions |-> <<"You are a helpful Project Manager assistant.", 0>>,
               role_template |-> <<>>, role_template_version |-> 0,
               is_default |-> TRUE])]
    /\ team_members' = IF team_ok THEN QUIETDESK_TEAM ELSE <<>>
    /\ UNCHANGED <<request, deliverables, request_messages, tasks, now, key_updates>>

\* routes_settings.update_api_keys.  A field is "None" (not sent), "" (remove
\* the key) or a key.
update_api_keys(openai_api_key, anthropic_api_key) ==
    /\ user.exists
    /\ key_updates < MaxKeyUpdates
    /\ key_updates' = key_updates + 1
    /\ user' = [user EXCEPT
          !.openai_api_key =
              IF openai_api_key = "None" THEN @ ELSE encrypt_api_key(openai_api_key),
          !.anthropic_api_key =
              IF anthropic_api_key = "None" THEN @ ELSE encrypt_api_key(anthropic_api_key)]
    /\ UNCHANGED <<team_members, request, deliverables, request_messages, tasks, now>>

\* routes_dashboard.create_request with a valid request type.
create_request(request_type) ==
    /\ user.exists
    /\ ~request.exists
    /\ request_type \in valid_types
    /\ request' = [NoRequest EXCEPT !.exists = TRUE, !.status = "pending",
                                    !.request_type = request_type]
    /\ UNCHANGED <<user, team_members, deliverables, request_messages, tasks, now, key_updates>>

\* trigger_processing: the HTTP status it answers with; 200 schedules the
\* background task.
trigger_status(req, usr) ==
    IF ~req.exists THEN 404
    ELSE IF req.status # "pending" THEN 400
    ELSE IF usr.openai_api_key = <<>> /\ usr.anthropic_api_key = <<>> THEN 402
    ELSE 200

\* POST /api/processing/process.
trigger_processing ==
    /\ user.exists
    /\ BagCardinality(tasks) < MaxCalls
    /\ LET code == trigger_status(request, user)
       IN  tasks' = tasks (+) SetToBag({[NewTask EXCEPT
                        !.http = code,
                        !.pc = IF code = 200 THEN "scheduled" ELSE "rejected"]})
    /\ UNCHANGED <<user, team_members, request, deliverables, request_messages, now, key_updates>>

----------------------------------------------------------------------------
(* process_request_async, the background task s                            *)

\* The session's Request object after "request.status = 'processing';
\* request.started_at = datetime.utcnow()".
mark_processing(s, row, time) ==
    set_attr(set_attr([s EXCEPT !.req = row], "status", "processing"),
             "started_at", time)

\* get_session_maker returns the session maker (trigger_processing got its
\* session from the same one, so it is not None); select(Request) returns the
\* row; status and started_at are set; the commit is awaited.
load_request(s) ==
    /\ s.pc = "scheduled"
    /\ request.exists
    /\ tasks' = moved(s, [mark_processing(s, request, now) EXCEPT
                            !.pc = "commit_processing"])
    /\ now' = now + 1
    /\ UNCHANGED <<user, team_members, request, deliverables, request_messages, key_updates>>

\* The commit of status 'processing'; select(User) is awaited.
commit_processing(s) ==
    /\ s.pc = "commit_processing"
    /\ commit(s, [committed(s) EXCEPT !.pc = "select_user"])
    /\ UNCHANGED <<user, team_members, now, key_updates>>

\* select(User) returns; without a user the request is marked failed, else
\* select(TeamMember) is awaited.
select_user(s) ==
    /\ s.pc = "select_user"
    /\ tasks' = moved(s, IF ~user.exists
                         THEN [set_attr(s, "status", "failed") EXCEPT
                                 !.pc = "commit_failed"]
                         ELSE [s EXCEPT !.usr = user, !.pc = "select_team"])
    /\ UNCHANGED <<user, team_members, request, deliverables, request_messages, now, key_updates>>

\* The provider call of a consultation of team_member, if it makes one.
consult_call(usr, team_member) ==
    IF get_api_key_for_model(usr, team_member.model) # ""
    THEN << [kind |-> "consult", role |-> team_member.role,
             provider |-> call_ai_provider(team_member.model),
             api_key |-> get_api_key_for_model(usr, team_member.model),
             contributions |-> <<>>] >>
    ELSE <<>>

\* The loop of consultations from position s.idx on, up to its next commit:
\* either the next consulted team member gives an opinion (commit awaited),
\* or the loop is over and team_involved is set (commit awaited).
consult_step(s, team, outcome) ==
    LET roles == roles_to_consult(s.req.request_type)
        j == next_consulted(roles, team, s.idx)
    IN  IF j <= Len(roles)
        THEN LET inp == consult_team_member(s.usr, member(team, roles[j]), outcome)
             IN  [s EXCEPT !.pc = "commit_consult", !.idx = j,
                           !.team_inputs = Append(@, inp),
                           !.ai_calls = @ \o consult_call(s.usr, member(team, roles[j])),
                           !.pending = IF inp.error THEN <<>> ELSE <<internal_msg(inp)>>]
        ELSE [set_attr(s, "team_involved", json_dumps(contributing_roles(s.team_inputs)))
                EXCEPT !.pc = "commit_involved", !.idx = j]

\* select(TeamMember) returns; without the lead the request is marked failed,
\* else the consultations start.
select_team(s, outcome) ==
    /\ s.pc = "select_team"
    /\ tasks' = moved(s, IF ~has_role(team_members, "project_manager")
                         THEN [set_attr(s, "status", "failed") EXCEPT
                                 !.pc = "commit_failed"]
                         ELSE consult_step(s, team_members, outcome))
    /\ UNCHANGED <<user, team_members, request, deliverables, request_messages, now, key_updates>>

\* The commit of status 'failed' for a missing user or lead, then return.
commit_failed(s) ==
    /\ s.pc = "commit_failed"
    /\ commit(s, [committed(s) EXCEPT !.pc = "done"])
    /\ UNCHANGED <<user, team_members, now, key_updates>>

\* The commit after a consultation ("save internal messages as we go"), then
\* the next round of the loop.
commit_consult(s, outcome) ==
    /\ s.pc = "commit_consult"
    /\ commit(s, consult_step(committed(s), team_members, outcome))
    /\ UNCHANGED <<user, team_members, now, key_updates>>

\* The provider call of quincy_synthesize, if it makes one.
synthesize_call(usr, quincy, team_inputs) ==
    IF get_api_key_for_model(usr, quincy.model) # ""
    THEN << [kind |-> "synthesize", role |-> quincy.role,
             provider |-> call_ai_provider(quincy.model),
             api_key |-> get_api_key_for_model(usr, quincy.model),
             contributions |-> team_contributions(team_inputs)] >>
    ELSE <<>>

\* After the commit of team_involved: quincy_synthesize, and on success the
\* Deliverable, the final message, status 'completed' and completed_at; on an
\* exception the handler's select(Request) is awaited.
synthesize_step(s, team, outcome, time) ==
    LET quincy == member(team, "project_manager")
        called == [s EXCEPT !.ai_calls = @ \o synthesize_call(s.usr, quincy, s.team_inputs)]
        result == quincy_synthesize(s.usr, quincy, s.team_inputs, outcome)
    IN  IF result # "response"
        THEN [called EXCEPT !.pc = "handler_select", !.exc = result]
        ELSE LET content == synthesis_response(s.req.request_type,
                                               team_contributions(s.team_inputs))
             IN  [set_attr(set_attr(called, "status", "completed"), "completed_at", time)
                    EXCEPT
                    !.pc = "commit_completed",
                    !.deliverable_content = content,
                    !.pending =
                       << [table |-> "deliverables",
                           row |-> [content |-> content,
                                    deliverable_type |-> s.req.request_type,
                                    version |-> 1, is_draft |-> FALSE]],
                          [table |-> "request_messages",
                           row |-> [sender_name |-> "Quincy", is_internal |-> FALSE,
                                    team_member_role |-> ""]] >>]

commit_involved(s, outcome) ==
    /\ s.pc = "commit_involved"
    /\ commit(s, synthesize_step(committed(s), team_members, outcome, now))
    /\ now' = IF synthesize_step(committed(s), team_members, outcome, now).pc
                   = "commit_completed"
              THEN now + 1 ELSE now
    /\ UNCHANGED <<user, team_members, key_updates>>

\* The final commit: the Deliverable, Quincy's message, status 'completed'
\* and completed_at in one transaction.
commit_completed(s) ==
    /\ s.pc = "commit_completed"
    /\ commit(s, [committed(s) EXCEPT !.pc = "done"])
    /\ UNCHANGED <<user, team_members, now, key_updates>>

\* A database call of the try block raises.  The session is left without
\* pending changes (a failed commit is rolled back and expires its objects;
\* nothing is unflushed when a select is awaited) and the handler's
\* select(Request) is awaited.
db_error(s) ==
    /\ s.pc \in {"scheduled", "commit_processing", "select_user", "select_team",
                 "commit_failed", "commit_consult", "commit_involved",
                 "commit_completed"}
    /\ tasks' = moved(s, [s EXCEPT
                            !.pc = "handler_select", !.exc = "database error",
                            !.dirty = {}, !.pending = <<>>,
                            !.req = IF s.pc \in {"scheduled", "select_user", "select_team"}
                                    THEN @ ELSE NoRequest])
    /\ UNCHANGED <<user, team_members, request, deliverables, request_messages, now, key_updates>>

\* except Exception: select(Request) returns (the row is read again only if
\* the session's object is expired or was never loaded), status is set to
\* 'failed' and the commit is awaited.
handler_select(s) ==
    /\ s.pc = "handler_select"
    /\ request.exists
    /\ tasks' = moved(s, [set_attr([s EXCEPT !.req = IF s.req.exists THEN @ ELSE request],
                                   "status", "failed")
                            EXCEPT !.pc = "handler_commit"])
    /\ UNCHANGED <<user, team_members, request, deliverables, request_messages, now, key_updates>>

\* The handler's commit of status 'failed', then the exception is re-raised.
handler_commit(s) ==
    /\ s.pc = "handler_commit"
    /\ commit(s, [committed(s) EXCEPT !.pc = "done"])
    /\ UNCHANGED <<user, team_members, now, key_updates>>

\* A database call of the handler raises: "except: pass", then the exception
\* is re-raised and the task ends.
handler_db_error(s) ==
    /\ s.pc \in {"handler_select", "handler_commit"}
    /\ tasks' = moved(s, [s EXCEPT !.pc = "done", !.handler_failed = TRUE,
                                   !.dirty = {}, !.pending = <<>>])
    /\ UNCHANGED <<user, team_members, request, deliverables, request_messages, now, key_updates>>

Next ==
    \/ \E team_ok \in BOOLEAN :
          google_callback(team_ok)
          /\ UNCHANGED <<compaction, composition, context, stream, turn, suggestions>>
    \/ \E o \in {"None", "", OPENAI_KEY}, a \in {"None", "", ANTHROPIC_KEY} :
          update_api_keys(o, a) /\ UNCHANGED chat_vars
    \/ \E request_type \in valid_types : create_request(request_type) /\ UNCHANGED chat_vars
    \/ trigger_processing /\ UNCHANGED chat_vars
    \/ \E s \in BagToSet(tasks) : load_request(s) /\ UNCHANGED chat_vars
    \/ \E s \in BagToSet(tasks) : commit_processing(s) /\ UNCHANGED chat_vars
    \/ \E s \in BagToSet(tasks) : select_user(s) /\ UNCHANGED chat_vars
    \/ \E s \in BagToSet(tasks), outcome \in {"ok", "raise"} : select_team(s, outcome) /\ UNCHANGED chat_vars
    \/ \E s \in BagToSet(tasks) : commit_failed(s) /\ UNCHANGED chat_vars
    \/ \E s \in BagToSet(tasks), outcome \in {"ok", "raise"} : commit_consult(s, outcome) /\ UNCHANGED chat_vars
    \/ \E s \in BagToSet(tasks), outcome \in {"ok", "raise"} : commit_involved(s, outcome) /\ UNCHANGED chat_vars
    \/ \E s \in BagToSet(tasks) : commit_completed(s) /\ UNCHANGED chat_vars
    \/ \E s \in BagToSet(tasks) : db_error(s) /\ UNCHANGED chat_vars
    \/ \E s \in BagToSet(tasks) : handler_select(s) /\ UNCHANGED chat_vars
    \/ \E s \in BagToSet(tasks) : handler_commit(s) /\ UNCHANGED chat_vars
    \/ \E s \in BagToSet(tasks) : handler_db_error(s) /\ UNCHANGED chat_vars

Spec == Init /\ [][Next]_vars


----------------------------------------------------------------------------
(* Properties                                                              *)

Tasks == BagToSet(tasks)
Terminal == {"completed", "failed"}

\* The number of tasks (copies counted) whose pc is in pcs.
tasks_at(bag, pcs) ==
    BagCardinality([s \in {x \in BagToSet(bag) : x.pc \in pcs} |-> CopiesIn(s, bag)])

\* The roles of a sequence of opinions.
roles_of(team_inputs) == [i \in 1 .. Len(team_inputs) |-> team_inputs[i].role]

\* An opinion that holds a provider response, not a placeholder.
is_response(inp) == inp.input[1] = "response"

\* The task has been through the whole loop of consultations.
consulted_all(s) ==
    \/ s.pc \in {"commit_involved", "commit_completed"}
    \/ s.deliverable_content # <<>>
    \/ s.exc \in {"HTTPException 402", "provider error"}

\* No database call of task s has raised.
db_ok(s) == s.exc # "database error" /\ ~s.handler_failed

\* No database call of any task has raised.
no_db_error == \A s \in Tasks : db_ok(s)

\* C1: once the persisted status is 'completed' or 'failed' it never changes
\* again, and a trigger call on such a request changes nothing of the
\* request, schedules no background task and creates no Deliverable (stated
\* for the runs in which no database call fails).
C1_TerminalIsFinal ==
    [][(request.status \in Terminal /\ no_db_error) =>
         /\ request'.status = request.status
         /\ BagCardinality(tasks') > BagCardinality(tasks) =>
               /\ tasks_at(tasks', {"scheduled"}) = tasks_at(tasks, {"scheduled"})
               /\ request' = request
               /\ deliverables' = deliverables]_vars

\* C2: whatever the interleaving of trigger calls, the request enters
\* 'processing' at most once (from 'pending' only), started_at is recorded
\* once and at most one Deliverable is ever created.
C2_SingleProcessing ==
    /\ [](Len(deliverables) <= 1)
    /\ [][/\ (request.status # "processing" /\ request'.status = "processing")
               => request.status = "pending"
          /\ request.started_at # 0 => request'.started_at = request.started_at]_vars


\* An opinion that is the placeholder of a missing credential.
no_credential(inp) == inp.input[1] = "unable to contribute - no API key configured"

\* C3: when the credential of a consulted specialist is missing (and no
\* database call of the task fails), the task ends with the request 'completed', a
\* Deliverable created and the specialist's role absent from team_involved.
C3_MissingCredentialCompletes ==
    \A s \in Tasks :
        (/\ s.pc = "done"
         /\ db_ok(s)
         /\ \E i \in 1 .. Len(s.team_inputs) : no_credential(s.team_inputs[i]))
        => /\ request.status = "completed"
           /\ deliverables # <<>>
           /\ \A i \in 1 .. Len(s.team_inputs) :
                 no_credential(s.team_inputs[i]) =>
                    \A k \in 1 .. Len(json_loads(request.team_involved)) :
                       json_loads(request.team_involved)[k] # s.team_inputs[i].role

\* The specialists expected for a request type, written out: the static
\* table, and the fallback pair for 'custom'.
expected_roster(request_type) ==
    CASE request_type = "roadmap" -> <<"product_manager", "technical_advisor">>
      [] request_type = "analysis" -> <<"research_analyst", "product_manager">>
      [] request_type = "audit" -> <<"qa_engineer", "ux_expert", "technical_advisor">>
      [] request_type = "review" -> <<"product_manager", "ux_expert">>
      [] request_type = "research" -> <<"research_analyst">>
      [] request_type = "custom" -> <<"product_manager", "research_analyst">>

\* C4: a consultation that fails (missing credential or provider exception)
\* yields a placeholder opinion with error = TRUE and a response yields
\* error = FALSE; the specialists after a failed one are still consulted, so
\* at the end of the loop every specialist of the roster has an opinion; a
\* failed consultation leaves the session's Request 'processing', and a
\* provider exception reaches the handler from the synthesis call only.
C4_SpecialistIsolation ==
    \A s \in Tasks :
        /\ \A i \in 1 .. Len(s.team_inputs) :
              /\ s.team_inputs[i].error = ~is_response(s.team_inputs[i])
              /\ s.team_inputs[i].role = expected_roster(request.request_type)[i]
        /\ s.pc = "commit_consult" => (s.req.status = "processing" /\ s.exc = "")
        /\ s.pc = "commit_involved" =>
              /\ Len(s.team_inputs) = Len(expected_roster(request.request_type))
              /\ s.req.status = "processing"
              /\ s.exc = ""
        /\ s.exc = "provider error" =>
              /\ s.ai_calls # <<>>
              /\ s.ai_calls[Len(s.ai_calls)].kind = "synthesize"

\* C4 witness: a task is through the loop with a failed first opinion (one
\* from a provider exception) and a successful later one.
C4_Witness ==
    \E s \in Tasks :
        /\ s.pc = "commit_involved"
        /\ Len(s.team_inputs) >= 2
        /\ s.team_inputs[1].input[1] = "encountered an error"
        /\ ~s.team_inputs[2].error

\* quincy_synthesize has been called in task s.
synthesized(s) ==
    \/ s.deliverable_content # <<>>
    \/ s.exc \in {"HTTPException 402", "provider error"}

\* C5: in every task the synthesizer is invoked at most once and only when
\* every specialist of the roster has an opinion (succeeded or failed): the
\* synthesis call is the last provider call of the task, and until
\* quincy_synthesize is called no synthesis call has been made.
C5_SynthesisAfterAll ==
    \A s \in Tasks :
        /\ Cardinality({i \in 1 .. Len(s.ai_calls) : s.ai_calls[i].kind = "synthesize"}) <= 1
        /\ \A i \in 1 .. Len(s.ai_calls) :
              s.ai_calls[i].kind = "synthesize" => i = Len(s.ai_calls)
        /\ synthesized(s) =>
              Len(s.team_inputs) = Len(expected_roster(request.request_type))
        /\ ~synthesized(s) =>
              \A i \in 1 .. Len(s.ai_calls) : s.ai_calls[i].kind = "consult"

\* C5 witness: a task has made its synthesis call after three consultations.
C5_Witness ==
    \E s \in Tasks :
        /\ Len(s.ai_calls) = 4
        /\ s.ai_calls[4].kind = "synthesize"
        /\ s.pc = "commit_completed"


\* The synthesis step of task s could not succeed: the lead is missing from
\* the team, or quincy_synthesize raised (missing credential, provider error).
synthesis_failed(s) ==
    \/ s.usr.exists /\ ~has_role(team_members, "project_manager")
    \/ s.exc \in {"HTTPException 402", "provider error"}

\* C6: when the synthesis step of a task cannot succeed (and no database call
\* of the task fails), the task ends with the request 'failed', without a
\* Deliverable and with completed_at unset.
C6_SynthesisFailureFails ==
    \A s \in Tasks :
        (s.pc = "done" /\ db_ok(s) /\ synthesis_failed(s))
        => /\ request.status = "failed"
           /\ deliverables = <<>>
           /\ request.completed_at = 0

succeeded(team_inputs) == SelectSeq(team_inputs, is_response)

\* C8: the contributions of a synthesis call are the successful opinions of
\* the task, in the order of the roster, each under the name and the role of
\* its team member, and none is a placeholder; team_involved set on the
\* Request is the list of the roles of those opinions.
C8_SynthesisInput ==
    \A s \in Tasks :
        /\ \A i \in 1 .. Len(s.ai_calls) :
              s.ai_calls[i].kind = "synthesize" =>
                 LET given == s.ai_calls[i].contributions
                     good == succeeded(s.team_inputs)
                 IN  /\ Len(given) = Len(good)
                     /\ \A k \in 1 .. Len(given) :
                           /\ given[k].name = member(QUIETDESK_TEAM, good[k].role).name
                           /\ given[k].role = role_title(good[k].role)
                           /\ given[k].input = <<"response", given[k].name>>
        /\ s.pc \in {"commit_involved", "commit_completed"} =>
              s.req.team_involved = json_dumps(roles_of(succeeded(s.team_inputs)))

\* C8 witness: a synthesis call was made with a failed opinion followed by a
\* successful one.
C8_Witness ==
    \E s \in Tasks :
        /\ s.pc = "commit_completed"
        /\ Len(s.team_inputs) >= 2
        /\ s.team_inputs[1].error
        /\ ~s.team_inputs[2].error
        /\ s.ai_calls[Len(s.ai_calls)].kind = "synthesize"

\* C9: whenever the status is 'completed', completed_at is set and exactly one
\* Deliverable exists, of the request's type and with the synthesizer's
\* output as content.
C9_CompletedHasOneDeliverable ==
    request.status = "completed" =>
        /\ request.completed_at # 0
        /\ Len(deliverables) = 1
        /\ deliverables[1].deliverable_type = request.request_type
        /\ \E s \in Tasks : deliverables[1].content = s.deliverable_content

\* C10: when every background task of the request has ended, the request is
\* 'completed' or 'failed'.
C10_EndsTerminal ==
    (/\ \E s \in Tasks : s.pc = "done"
     /\ \A s \in Tasks : s.pc \in {"done", "rejected"})
    => request.status \in Terminal

\* C30: a Deliverable exists only while the status of the Request is
\* 'completed', and when the final commit of a task has raised and the task
\* has ended, the Request is 'failed' and has no Deliverable.
C30_DeliverableOnlyCompleted ==
    /\ deliverables # <<>> => request.status = "completed"
    /\ \A s \in Tasks :
          (s.pc = "done" /\ s.exc = "database error" /\ synthesized(s))
          => (request.status = "failed" /\ deliverables = <<>>)

----------------------------------------------------------------------------
(* Text.  A Python str is the sequence of its characters, so that slicing, *)
(* len, str.replace, str.strip and the regular expressions of the chat     *)
(* pipeline are computed as the code computes them.                        *)

\* Whether the character c is in a class of the regular expressions, named
\* as the patterns write it.
in_class(class, c) ==
    CASE class = "\\s" -> c \in {" ", "\n", "\t"}
      [] class = "[a-zA-Z0-9_-]" ->
            c \in
            {"a", "b", "c", "d", "e", "f", "g", "h", "i", "j", "k",
             "l", "m", "n", "o", "p", "q", "r", "s", "t", "u", "v",
             "w", "x", "y", "z", "A", "B", "C", "D", "E", "F", "G",
             "H", "I", "J", "K", "L", "M", "N", "O", "P", "Q", "R",
             "S", "T", "U", "V", "W", "X", "Y", "Z", "0", "1", "2",
             "3", "4", "5", "6", "7", "8", "9", "_", "-"}
      [] class = "[^)]" -> c # ")"
      [] class = "[^\\s\\)]" -> c \notin {" ", "\n", "\t", ")"}

\* s[i:i+len(p)] == p, for a position i counted from 1.
startswith_at(s, p, i) ==
    /\ i + Len(p) - 1 <= Len(s)
    /\ SubSeq(s, i, i + Len(p) - 1) = p

\* p in s
contains(s, p) == \E i \in 1 .. Len(s) - Len(p) + 1 : startswith_at(s, p, i)

\* The least element of a non-empty set of numbers.
least(S) == CHOOSE i \in S : \A k \in S : i <= k

\* The position after the longest run of characters of a class from position
\* i on (what a greedy "class*" consumes).
span(class, s, i) ==
    LET stop == {j \in i .. Len(s) : ~in_class(class, s[j])}
    IN  IF stop = {} THEN Len(s) + 1 ELSE least(stop)

\* sep.join(parts)
RECURSIVE join(_, _)
join(sep, parts) ==
    IF parts = <<>> THEN <<>>
    ELSE IF Len(parts) = 1 THEN parts[1]
    ELSE parts[1] \o sep \o join(sep, Tail(parts))

\* The first position from i on, and the last position down from i, that
\* does not hold whitespace.
RECURSIVE skip_whitespace(_, _)
skip_whitespace(s, i) ==
    IF i > Len(s) \/ ~in_class("\\s", s[i]) THEN i ELSE skip_whitespace(s, i + 1)

RECURSIVE skip_whitespace_back(_, _)
skip_whitespace_back(s, i) ==
    IF i < 1 \/ ~in_class("\\s", s[i]) THEN i ELSE skip_whitespace_back(s, i - 1)

\* s.strip()
strip(s) == SubSeq(s, skip_whitespace(s, 1), skip_whitespace_back(s, Len(s)))

\* The concatenation of a sequence of sequences.
RECURSIVE flatten(_)
flatten(seqs) == IF seqs = <<>> THEN <<>> ELSE Head(seqs) \o flatten(Tail(seqs))

\* list(dict.fromkeys(items)): the first occurrence of each item, in order.
dict_fromkeys(items) ==
    flatten([i \in 1 .. Len(items) |->
                IF \E k \in 1 .. i - 1 : items[k] = items[i]
                THEN <<>> ELSE <<items[i]>>])


----------------------------------------------------------------------------
(* Conversation compaction (routes_chat.py)                                *)

\* Number of short turns and of turns with artifacts in a conversation.
MaxPad == 15
MaxFree == 2

\* estimate_tokens: 4 characters per token, rounded down.
estimate_tokens(text) == Len(text) \div 4

\* get_model_context_limit
get_model_context_limit(model) ==
    CASE model = <<"g", "p", "t", "-", "4">> -> 8192
      [] model = GPT_4_TURBO -> 128000
      [] model = <<"g", "p", "t", "-", "4", "o">> -> 128000
      [] model = <<"g", "p", "t", "-", "4", "o", "-", "m", "i", "n", "i">> -> 128000
      [] model = <<"g", "p", "t", "-", "3", ".", "5", "-", "t", "u", "r",
                   "b", "o">> -> 16385
      [] model = <<"c", "l", "a", "u", "d", "e", "-", "3", "-", "5", "-",
                   "s", "o", "n", "n", "e", "t", "-", "l", "a", "t", "e",
                   "s", "t">> -> 200000
      [] model = <<"c", "l", "a", "u", "d", "e", "-", "3", "-", "5", "-",
                   "h", "a", "i", "k", "u", "-", "l", "a", "t", "e", "s", "t">> -> 200000
      [] model = <<"c", "l", "a", "u", "d", "e", "-", "3", "-", "o", "p",
                   "u", "s", "-", "l", "a", "t", "e", "s", "t">> -> 200000
      [] OTHER -> 8192

\* A match of one of the three patterns of extract_important_artifacts that
\* starts at position i of s: whether there is one, the position after it,
\* and what findall returns for it (the group, or the whole match when the
\* pattern has none).
\*   "spreadsheet_id"  r'\(spreadsheet_id:\s*([a-zA-Z0-9_-]+)'
\*   "sheets"          r'sheets:\s*([^)]+)\)'   The group needs one character
\*                     at least, so "\s*" gives its last blank back when only
\*                     blanks come before the parenthesis.
\*   "url"             r'https://docs\.google\.com/spreadsheets/d/[^\s\)]+'
match(pattern, s, i) ==
    LET no_match == [ok |-> FALSE, from |-> i, end |-> i, group |-> <<>>]
    IN  CASE pattern = "spreadsheet_id" ->
               LET literal == <<"(", "s", "p", "r", "e", "a", "d", "s", "h",
                                "e", "e", "t", "_", "i", "d", ":">>
                   k == span("\\s", s, i + Len(literal))
                   e == span("[a-zA-Z0-9_-]", s, k)
               IN  IF startswith_at(s, literal, i) /\ e > k
                   THEN [ok |-> TRUE, from |-> i, end |-> e,
                         group |-> SubSeq(s, k, e - 1)]
                   ELSE no_match
          [] pattern = "sheets" ->
               LET literal == <<"s", "h", "e", "e", "t", "s", ":">>
                   j == i + Len(literal)
                   p == span("[^)]", s, j)
                   w == span("\\s", s, j)
                   k == IF w >= p THEN p - 1 ELSE w
               IN  IF startswith_at(s, literal, i) /\ p <= Len(s) /\ p > j
                   THEN [ok |-> TRUE, from |-> i, end |-> p + 1,
                         group |-> SubSeq(s, k, p - 1)]
                   ELSE no_match
          [] pattern = "url" ->
               LET literal ==
                       <<"h", "t", "t", "p", "s", ":", "/", "/", "d", "o", "c",
                      "s", ".", "g", "o", "o", "g", "l", "e", ".", "c", "o",
                      "m", "/", "s", "p", "r", "e", "a", "d", "s", "h", "e",
                      "e", "t", "s", "/", "d", "/">>
                   j == i + Len(literal)
                   e == span("[^\\s\\)]", s, j)
               IN  IF startswith_at(s, literal, i) /\ e > j
                   THEN [ok |-> TRUE, from |-> i, end |-> e,
                         group |-> SubSeq(s, i, e - 1)]
                   ELSE no_match

\* re.findall(pattern, s), as the scan from position pos on: the leftmost
\* match, then the scan goes on after it (matches do not overlap).
RECURSIVE findall(_, _, _)
findall(pattern, s, pos) ==
    LET starts == {i \in pos .. Len(s) : match(pattern, s, i).ok}
    IN  IF starts = {} THEN <<>>
        ELSE LET m == match(pattern, s, least(starts))
             IN  <<m.group>> \o findall(pattern, s, m.end)

\* The artifact lines of one message, in the order the loop appends them.
artifacts_of(content) ==
    LET ids == findall("spreadsheet_id", content, 1)
        sheets == findall("sheets", content, 1)
        urls == findall("url", content, 1)
    IN  [i \in 1 .. Len(ids) |->
            <<"-", " ", "G", "o", "o", "g", "l", "e", " ", "S", "h", "e",
              "e", "t", " ", "I", "D", ":", " ">> \o ids[i]]
        \o [i \in 1 .. Len(sheets) |->
               <<"-", " ", "S", "h", "e", "e", "t", " ", "t", "a", "b", "s",
                 ":", " ">> \o strip(sheets[i])]
        \o [i \in 1 .. Len(urls) |->
               <<"-", " ", "S", "p", "r", "e", "a", "d", "s", "h", "e", "e",
                 "t", " ", "U", "R", "L", ":", " ">> \o urls[i]]

\* A faulty extract_important_artifacts, for comparison: it looks at the
\* last five messages only.
extract_recent_artifacts(messages) ==
    LET recent == SubSeq(messages, IF Len(messages) > 5 THEN Len(messages) - 4 ELSE 1,
                         Len(messages))
    IN  join(<<"\n">>,
             dict_fromkeys(flatten([i \in 1 .. Len(recent) |->
                                       artifacts_of(recent[i].content)])))

\* extract_important_artifacts
extract_important_artifacts(messages) ==
    join(<<"\n">>,
         dict_fromkeys(flatten([i \in 1 .. Len(messages) |->
                                   artifacts_of(messages[i].content)])))

\* keep_recent = 6
keep_recent == 6

\* seq[-n:]
last_n(seq, n) == IF Len(seq) > n THEN SubSeq(seq, Len(seq) - n + 1, Len(seq)) ELSE seq

\* seq[:-n], for n > 0
but_last_n(seq, n) == IF Len(seq) > n THEN SubSeq(seq, 1, Len(seq) - n) ELSE <<>>

\* The sum of the estimated tokens of the messages.
RECURSIVE total_tokens(_)
total_tokens(messages) ==
    IF messages = <<>> THEN 0
    ELSE estimate_tokens(Head(messages).content) + total_tokens(Tail(messages))

\* A faulty summary, for comparison: of the lines of the last ten older
\* messages the first five are kept, not the last five.
summarized_first_parts(messages) ==
    LET older_messages == but_last_n(messages, keep_recent)
        recent_messages == last_n(messages, keep_recent)
        artifacts == extract_important_artifacts(older_messages)
        shown == last_n(older_messages, 10)
        summary_parts ==
            [i \in 1 .. Len(shown) |->
                <<"[">> \o shown[i].role \o <<"]", ":", " ">>
                \o (IF Len(shown[i].content) > 150
                    THEN SubSeq(shown[i].content, 1, 150) \o <<".", ".", ".">>
                    ELSE shown[i].content)]
        summary_text ==
            <<"#", "#", " ", "E", "a", "r", "l", "i", "e", "r", " ", "C",
              "o", "n", "v", "e", "r", "s", "a", "t", "i", "o", "n", " ",
              "S", "u", "m", "m", "a", "r", "y", "\n", "T", "h", "e", " ",
              "c", "o", "n", "v", "e", "r", "s", "a", "t", "i", "o", "n",
              " ", "s", "t", "a", "r", "t", "e", "d", " ", "e", "a", "r",
              "l", "i", "e", "r", ".", " ", "K", "e", "y", " ", "p", "o",
              "i", "n", "t", "s", ":", "\n">>
            \o join(<<"\n">>, SubSeq(summary_parts, 1, IF Len(summary_parts) > 5 THEN 5 ELSE Len(summary_parts)))
            \o (IF artifacts # <<>>
                THEN <<"\n", "\n", "#", "#", " ", "I", "m", "p", "o", "r",
                       "t", "a", "n", "t", " ", "C", "o", "n", "t", "e", "x",
                       "t", " ", "(", "p", "r", "e", "s", "e", "r", "v", "e",
                       " ", "t", "h", "e", "s", "e", ")", ":", "\n">>
                     \o artifacts
                ELSE <<>>)
    IN  <<[role |-> <<"u", "s", "e", "r">>, content |-> summary_text]>>
        \o recent_messages

\* The part of summarize_messages_for_context after its early returns: the
\* summary of the older messages (one line "[role]: " and the first 150
\* characters for each of the last ten, the last five lines kept), then the
\* recent ones.
summarized_messages(messages) ==
    LET older_messages == but_last_n(messages, keep_recent)
        recent_messages == last_n(messages, keep_recent)
        artifacts == extract_important_artifacts(older_messages)
        shown == last_n(older_messages, 10)
        summary_parts ==
            [i \in 1 .. Len(shown) |->
                <<"[">> \o shown[i].role \o <<"]", ":", " ">>
                \o (IF Len(shown[i].content) > 150
                    THEN SubSeq(shown[i].content, 1, 150) \o <<".", ".", ".">>
                    ELSE shown[i].content)]
        summary_text ==
            <<"#", "#", " ", "E", "a", "r", "l", "i", "e", "r", " ", "C",
              "o", "n", "v", "e", "r", "s", "a", "t", "i", "o", "n", " ",
              "S", "u", "m", "m", "a", "r", "y", "\n", "T", "h", "e", " ",
              "c", "o", "n", "v", "e", "r", "s", "a", "t", "i", "o", "n",
              " ", "s", "t", "a", "r", "t", "e", "d", " ", "e", "a", "r",
              "l", "i", "e", "r", ".", " ", "K", "e", "y", " ", "p", "o",
              "i", "n", "t", "s", ":", "\n">>
            \o join(<<"\n">>, last_n(summary_parts, 5))
            \o (IF artifacts # <<>>
                THEN <<"\n", "\n", "#", "#", " ", "I", "m", "p", "o", "r",
                       "t", "a", "n", "t", " ", "C", "o", "n", "t", "e", "x",
                       "t", " ", "(", "p", "r", "e", "s", "e", "r", "v", "e",
                       " ", "t", "h", "e", "s", "e", ")", ":", "\n">>
                     \o artifacts
                ELSE <<>>)
    IN  <<[role |-> <<"u", "s", "e", "r">>, content |-> summary_text]>>
        \o recent_messages

\* A faulty token_budget, for comparison: a model that is not in the table
\* of context limits leaves the default budget.
token_budget_of_known(max_tokens, model) ==
    IF \/ get_model_context_limit(model) # 8192
       \/ model = <<"g", "p", "t", "-", "4">>
    THEN (get_model_context_limit(model) * 7) \div 10 ELSE max_tokens

\* The budget of a call: 70% of the model's context limit when a model is
\* given (<<>> stands for None), else max_tokens.
token_budget(max_tokens, model) ==
    IF model # <<>> THEN (get_model_context_limit(model) * 7) \div 10 ELSE max_tokens

\* A faulty summarize_messages_for_context, for comparison: a conversation
\* of exactly the budget is not returned as it is.
summarize_below_budget(messages, max_tokens, model) ==
    IF messages = <<>> THEN messages
    ELSE IF total_tokens(messages) < token_budget(max_tokens, model) THEN messages
    ELSE IF Len(messages) <= keep_recent THEN messages
    ELSE summarized_messages(messages)

\* A faulty summarize_messages_for_context, for comparison: it does not
\* return short conversations as they are.
summarize_without_floor(messages, max_tokens, model) ==
    IF messages = <<>> THEN messages
    ELSE IF total_tokens(messages) <= token_budget(max_tokens, model) THEN messages
    ELSE summarized_messages(messages)

\* summarize_messages_for_context
summarize_messages_for_context(messages, max_tokens, model) ==
    IF messages = <<>> THEN messages
    ELSE IF total_tokens(messages) <= token_budget(max_tokens, model) THEN messages
    ELSE IF Len(messages) <= keep_recent THEN messages
    ELSE summarized_messages(messages)

\* The texts of the conversations checked: a short turn (pad), a turn that
\* names a spreadsheet after more than 150 characters (id, with the text
\* that marks the artifact and the id that has to survive), and a turn with
\* the URL of a spreadsheet (url, with that URL).
turn_contents ==
    LET id_marker == <<"(", "s", "p", "r", "e", "a", "d", "s", "h", "e", "e",
                       "t", "_", "i", "d", ":", " ", "a", "1", "Z">>
        sheet_id == <<"a", "1", "Z">>
        sheet_url ==
            <<"h", "t", "t", "p", "s", ":", "/", "/", "d", "o", "c", "s",
              ".", "g", "o", "o", "g", "l", "e", ".", "c", "o", "m", "/",
              "s", "p", "r", "e", "a", "d", "s", "h", "e", "e", "t", "s",
              "/", "d", "/", "u", "9", "Q", "/", "e", "d", "i", "t">>
    IN  [pad |-> <<"o", "k">>,
         id_marker |-> id_marker,
         sheet_id |-> sheet_id,
         id |-> [i \in 1 .. 150 |-> "x"] \o <<" ">> \o id_marker
                \o <<",", " ", "s", "h", "e", "e", "t", "s", ":", " ", "P",
                     "l", "a", "n", ")">>,
         sheet_url |-> sheet_url,
         url |-> <<"S", "h", "e", "e", "t", ":", " ">> \o sheet_url
                 \o <<" ", "d", "o", "n", "e">>]

\* The calls checked differ in max_tokens and model (<<>> for None).
InitCompaction ==
    /\ NoRows
    /\ turn = NoTurn
    /\ personas = NoPersonas
    /\ suggestions = NoSuggestions
    /\ composition = NoComposition
    /\ context = NoContext
    /\ stream = NoStream
    /\ compaction \in
          {[NoCompaction EXCEPT !.max_tokens = a[1], !.model = a[2]] :
              a \in {<<0, <<>> >>, <<80, <<>> >>, <<8000, <<>> >>,
                     <<8000, <<"g", "p", "t", "-", "4">> >>}}

\* The client adds a turn to the conversation it will send: at most MaxPad
\* short turns and MaxFree turns with artifacts.
add_message(role, content) ==
    /\ compaction.phase = "input"
    /\ Cardinality({i \in 1 .. Len(compaction.messages) :
                      (compaction.messages[i].content = turn_contents.pad)
                      = (content = turn_contents.pad)})
          < (IF content = turn_contents.pad THEN MaxPad ELSE MaxFree)
    /\ compaction' = [compaction EXCEPT
                        !.messages = Append(@, [role |-> role, content |-> content])]
    /\ UNCHANGED <<vars, composition, context, stream, turn, personas, suggestions>>

\* chat: api_messages = summarize_messages_for_context(raw_messages, ...)
summarize_call ==
    /\ compaction.phase = "input"
    /\ compaction' = [compaction EXCEPT
          !.phase = "summarized",
          !.result = summarize_messages_for_context(compaction.messages,
                        compaction.max_tokens, compaction.model)]
    /\ UNCHANGED <<vars, composition, context, stream, turn, personas, suggestions>>

\* The result is sent through summarize_messages_for_context again.
summarize_again ==
    /\ compaction.phase = "summarized"
    /\ compaction' = [compaction EXCEPT
          !.phase = "again",
          !.again = summarize_messages_for_context(compaction.result,
                       compaction.max_tokens, compaction.model)]
    /\ UNCHANGED <<vars, composition, context, stream, turn, personas, suggestions>>

NextCompaction ==
    \/ add_message(<<"u", "s", "e", "r">>, turn_contents.pad)
    \/ \E content \in {turn_contents.id, turn_contents.url} :
          add_message(<<"a", "s", "s", "i", "s", "t", "a", "n", "t">>, content)
    \/ summarize_call
    \/ summarize_again

SpecCompaction == InitCompaction /\ [][NextCompaction]_<<vars, chat_vars>>

\* Compaction is forced: the conversation is over the budget and has more
\* than keep_recent turns.
compaction_forced ==
    /\ total_tokens(compaction.messages)
          > token_budget(compaction.max_tokens, compaction.model)
    /\ Len(compaction.messages) > keep_recent

\* C11: a conversation whose estimated tokens are at most the budget is
\* returned as it is: the same turns, in the same order, none modified.
C11_CompactorIdentity ==
    (/\ compaction.phase # "input"
     /\ total_tokens(compaction.messages)
           <= token_budget(compaction.max_tokens, compaction.model))
    => compaction.result = compaction.messages

\* C11 witness: a conversation of more than keep_recent turns, with text, is
\* within the budget and has been through the call.
C11_Witness ==
    /\ compaction.phase = "summarized"
    /\ Len(compaction.messages) > keep_recent
    /\ total_tokens(compaction.messages) > 0
    /\ total_tokens(compaction.messages)
          <= token_budget(compaction.max_tokens, compaction.model)

\* C12: a conversation of at most keep_recent turns is returned as it is,
\* also when its estimated tokens exceed the budget.
C12_RecencyFloor ==
    (compaction.phase # "input" /\ Len(compaction.messages) < keep_recent + 1)
    => compaction.result = compaction.messages

\* C12 witness: a conversation of keep_recent turns over the budget has been
\* through the call.
C12_Witness ==
    /\ compaction.phase = "summarized"
    /\ Len(compaction.messages) = keep_recent
    /\ total_tokens(compaction.messages)
          > token_budget(compaction.max_tokens, compaction.model)

\* C13: when compaction is forced, every spreadsheet id and spreadsheet URL
\* of a turn before the last keep_recent ones is in the content of the first
\* turn returned (the synopsis), however far back the turn is and wherever
\* in the turn the artifact is.  The artifacts of the texts checked are
\* known by the text that marks one in a turn and the string that has to
\* survive.
C13_ArtifactsPreserved ==
    LET known_artifacts ==
            {[marker |-> turn_contents.id_marker, text |-> turn_contents.sheet_id],
             [marker |-> turn_contents.sheet_url, text |-> turn_contents.sheet_url]}
    IN  (compaction.phase # "input" /\ compaction_forced)
        => \A i \in 1 .. Len(compaction.messages) - keep_recent :
              \A a \in known_artifacts :
                 contains(compaction.messages[i].content, a.marker)
                 => contains(compaction.result[1].content, a.text)

\* C13 witness: compaction was forced on a conversation whose first turn
\* names the spreadsheet after the 150th character and is more than ten turns
\* before the recent ones, so that no excerpt is taken from it.
C13_Witness ==
    /\ compaction.phase = "summarized"
    /\ compaction_forced
    /\ Len(compaction.messages) > keep_recent + 10
    /\ compaction.messages[1].content = turn_contents.id
    /\ ~contains(compaction.result[1].content, turn_contents.id_marker)

\* C14: a second call on the result of a call returns that result.
C14_Idempotent ==
    compaction.phase = "again" => compaction.again = compaction.result

\* C27 as stated: when compaction occurs the result is one synopsis turn and
\* then the last keep_recent turns of the input as they were, in their
\* order; after its two header lines the synopsis has one line
\* "[role]: content" for each of the last five older turns (all of them when
\* there are fewer), earliest first, the content being at most its first 150
\* characters; what follows the lines, if anything, begins with a blank line.
C27_SynopsisCapped ==
    (compaction.phase # "input" /\ compaction_forced) =>
       LET messages == compaction.messages
           result == compaction.result
           older == SubSeq(messages, 1, Len(messages) - keep_recent)
           kept == SubSeq(older, IF Len(older) > 5 THEN Len(older) - 4 ELSE 1, Len(older))
           excerpts ==
               join(<<"\n">>,
                    [i \in 1 .. Len(kept) |->
                        <<"[">> \o kept[i].role \o <<"]", ":", " ">>
                        \o SubSeq(kept[i].content, 1,
                                  IF Len(kept[i].content) > 150 THEN 150
                                  ELSE Len(kept[i].content))])
           synopsis == result[1].content
           line_ends == {i \in 1 .. Len(synopsis) : synopsis[i] = "\n"}
           header_end == least(line_ends \ {least(line_ends)})
           rest == SubSeq(synopsis, header_end + 1 + Len(excerpts), Len(synopsis))
       IN  /\ Len(result) = keep_recent + 1
           /\ SubSeq(result, 2, Len(result))
                 = SubSeq(messages, Len(messages) - keep_recent + 1, Len(messages))
           /\ startswith_at(synopsis, excerpts, header_end + 1)
           /\ rest = <<>> \/ startswith(rest, <<"\n", "\n">>)

\* C27, amended: as C27_SynopsisCapped, but the content of a turn longer
\* than 150 characters is shown as its first 150 characters followed by
\* "...".
C27_SynopsisShape ==
    (compaction.phase # "input" /\ compaction_forced) =>
       LET messages == compaction.messages
           result == compaction.result
           older == SubSeq(messages, 1, Len(messages) - keep_recent)
           kept == SubSeq(older, IF Len(older) > 5 THEN Len(older) - 4 ELSE 1, Len(older))
           excerpts ==
               join(<<"\n">>,
                    [i \in 1 .. Len(kept) |->
                        <<"[">> \o kept[i].role \o <<"]", ":", " ">>
                        \o (IF Len(kept[i].content) > 150
                            THEN SubSeq(kept[i].content, 1, 150) \o <<".", ".", ".">>
                            ELSE kept[i].content)])
           synopsis == result[1].content
           line_ends == {i \in 1 .. Len(synopsis) : synopsis[i] = "\n"}
           header_end == least(line_ends \ {least(line_ends)})
           rest == SubSeq(synopsis, header_end + 1 + Len(excerpts), Len(synopsis))
       IN  /\ Len(result) = keep_recent + 1
           /\ SubSeq(result, 2, Len(result))
                 = SubSeq(messages, Len(messages) - keep_recent + 1, Len(messages))
           /\ startswith_at(synopsis, excerpts, header_end + 1)
           /\ rest = <<>> \/ startswith(rest, <<"\n", "\n">>)

\* C27 witness: compaction was forced on a conversation with more than five
\* older turns, one of the last five of them longer than 150 characters.
C27_Witness ==
    /\ compaction.phase = "summarized"
    /\ compaction_forced
    /\ Len(compaction.messages) > keep_recent + 5
    /\ \E i \in Len(compaction.messages) - keep_recent - 4
                 .. Len(compaction.messages) - keep_recent :
          Len(compaction.messages[i].content) > 150

\* ---------------------------------------------------------------------
\* Instruction composition (routes_chat.py: compose_instructions,
\* replace_instruction_variables)
\* ---------------------------------------------------------------------

ADDITIONAL_INSTRUCTIONS ==
    <<"\n", "\n", "#", "#", " ", "A", "d", "d", "i", "t", "i", "o", "n", "a",
      "l", " ", "I", "n", "s", "t", "r", "u", "c", "t", "i", "o", "n", "s",
      " ", "f", "r", "o", "m", " ", "U", "s", "e", "r", ":", "\n">>

\* The base of the composed instructions comes from the template although
\* the employee has instructions of its own.
compose_template_first(employee, role_template) ==
    LET base == IF role_template.linked /\ role_template.instructions # <<>>
                THEN <<role_template.instructions>>
                ELSE IF employee.instructions # <<>>
                     THEN <<employee.instructions>>
                     ELSE <<>>
        additions == IF employee.user_instructions # <<>>
                     THEN <<ADDITIONAL_INSTRUCTIONS \o employee.user_instructions>>
                     ELSE <<>>
    IN  join(<<"\n">>, base \o additions)

\* The user's additions come before the base.
compose_additions_first(employee, role_template) ==
    LET base == IF employee.instructions # <<>>
                THEN <<employee.instructions>>
                ELSE IF role_template.linked /\ role_template.instructions # <<>>
                     THEN <<role_template.instructions>>
                     ELSE <<>>
        additions == IF employee.user_instructions # <<>>
                     THEN <<ADDITIONAL_INSTRUCTIONS \o employee.user_instructions>>
                     ELSE <<>>
    IN  join(<<"\n">>, additions \o base)

\* parts: the base (the employee's instructions, else the linked template's),
\* then the user's additions behind their heading; joined by "\n", "" when
\* there is no part (join of no part is the empty text).
compose_instructions(employee, role_template) ==
    LET base == IF employee.instructions # <<>>
                THEN <<employee.instructions>>
                ELSE IF role_template.linked /\ role_template.instructions # <<>>
                     THEN <<role_template.instructions>>
                     ELSE <<>>
        additions == IF employee.user_instructions # <<>>
                     THEN <<ADDITIONAL_INSTRUCTIONS \o employee.user_instructions>>
                     ELSE <<>>
    IN  join(<<"\n">>, base \o additions)

\* A faulty get_composed_instructions, for comparison: the linked template's
\* instructions are shown before the employee's own are looked at.
get_composed_template_first(employee, role_template) ==
    LET layers ==
            (IF role_template.linked /\ role_template.instructions # <<>>
             THEN <<[part |-> role_template.instructions, source |-> "role_template"]>>
             ELSE IF employee.instructions # <<>>
             THEN <<[part |-> employee.instructions,
                     source |-> "employee_instructions"]>>
             ELSE <<>>)
            \o (IF employee.user_instructions # <<>>
                THEN <<[part |-> ADDITIONAL_INSTRUCTIONS \o employee.user_instructions,
                        source |-> "user_instructions"]>>
                ELSE <<>>)
    IN  [asked |-> TRUE,
         composed_instructions |->
             join(<<"\n">>, [i \in 1 .. Len(layers) |-> layers[i].part]),
         sources |-> [i \in 1 .. Len(layers) |-> layers[i].source]]

\* routes_roles.get_composed_instructions, the fields composed_instructions
\* and sources of its answer: a part and its source are appended together.
get_composed_instructions(employee, role_template) ==
    LET layers ==
            (IF employee.instructions # <<>>
             THEN <<[part |-> employee.instructions,
                     source |-> "employee_instructions"]>>
             ELSE IF role_template.linked /\ role_template.instructions # <<>>
             THEN <<[part |-> role_template.instructions, source |-> "role_template"]>>
             ELSE <<>>)
            \o (IF employee.user_instructions # <<>>
                THEN <<[part |-> ADDITIONAL_INSTRUCTIONS \o employee.user_instructions,
                        source |-> "user_instructions"]>>
                ELSE <<>>)
    IN  [asked |-> TRUE,
         composed_instructions |->
             join(<<"\n">>, [i \in 1 .. Len(layers) |-> layers[i].part]),
         sources |-> [i \in 1 .. Len(layers) |-> layers[i].source]]

\* str.replace(old, new) for a non-empty old, from position i on: the
\* occurrences of old are found from the left, without overlap, in the
\* string as it was; the text between them is kept.
RECURSIVE replace_from(_, _, _, _)
replace_from(s, old, new, i) ==
    LET found == {k \in i .. Len(s) - Len(old) + 1 : startswith_at(s, old, k)}
    IN  IF found = {} THEN SubSeq(s, i, Len(s))
        ELSE SubSeq(s, i, least(found) - 1) \o new
             \o replace_from(s, old, new, least(found) + Len(old))

\* The keys of the replacements dict.
replacement_vars ==
    [user_name |-> <<"{", "{", "u", "s", "e", "r", "_", "n", "a", "m", "e",
                     "}", "}">>,
     employee_name |-> <<"{", "{", "e", "m", "p", "l", "o", "y", "e", "e",
                         "_", "n", "a", "m", "e", "}", "}">>,
     project_name |-> <<"{", "{", "p", "r", "o", "j", "e", "c", "t", "_",
                        "n", "a", "m", "e", "}", "}">>,
     date |-> <<"{", "{", "d", "a", "t", "e", "}", "}">>,
     time |-> <<"{", "{", "t", "i", "m", "e", "}", "}">>,
     day |-> <<"{", "{", "d", "a", "y", "}", "}">>]

\* The replacements dict, in insertion order, with "x or default" for the
\* names; clock is what datetime.now() formats to.
replacements(user_name, employee_name, project_name, clock) ==
    << <<replacement_vars.user_name,
         IF user_name # <<>> THEN user_name ELSE <<"U", "s", "e", "r">> >>,
       <<replacement_vars.employee_name,
         IF employee_name # <<>> THEN employee_name
         ELSE <<"A", "s", "s", "i", "s", "t", "a", "n", "t">> >>,
       <<replacement_vars.project_name,
         IF project_name # <<>> THEN project_name ELSE <<>> >>,
       <<replacement_vars.date, clock.date>>,
       <<replacement_vars.time, clock.time>>,
       <<replacement_vars.day, clock.day>> >>

\* for var, value in replacements.items(): result = result.replace(var, value)
RECURSIVE replace_each(_, _)
replace_each(result, items) ==
    IF items = <<>> THEN result
    ELSE replace_each(replace_from(result, items[1][1], items[1][2], 1), Tail(items))

replace_instruction_variables(instructions, user_name, employee_name, project_name, clock) ==
    IF instructions = <<>> THEN instructions
    ELSE replace_each(instructions,
                      replacements(user_name, employee_name, project_name, clock))

\* The texts of the rows and names checked.
composition_texts ==
    [own_instructions |->
        <<"I", " ", "a", "m", " ", "{", "{", "e", "m", "p", "l", "o", "y",
          "e", "e", "_", "n", "a", "m", "e", "}", "}", ".">>,
     own_greeting |->
        <<"H", "i", " ", "{", "{", "u", "s", "e", "r", "_", "n", "a", "m",
          "e", "}", "}", ",", " ", "{", "{", "m", "o", "o", "d", "}", "}">>,
     mood_var |-> <<"{", "{", "m", "o", "o", "d", "}", "}">>,
     template_instructions |->
        <<"P", "l", "a", "n", " ", "f", "o", "r", " ", "{", "{", "u", "s",
          "e", "r", "_", "n", "a", "m", "e", "}", "}", ".">>,
     user_addition |-> <<"B", "e", " ", "b", "r", "i", "e", "f", ".">>,
     project_addition |->
        <<"U", "s", "e", " ", "{", "{", "p", "r", "o", "j", "e", "c", "t",
          "_", "n", "a", "m", "e", "}", "}", ".">>,
     troy |-> <<"T", "r", "o", "y">>,
     quincy |-> <<"Q", "u", "i", "n", "c", "y">>,
     apollo |-> <<"A", "p", "o", "l", "l", "o">>]

\* What datetime.now() formats to ("%Y-%m-%d", "%H:%M", "%A") at two moments.
clocks ==
    {[date |-> <<"2", "0", "2", "6", "-", "1", "1", "-", "0", "1">>,
      time |-> <<"0", "9", ":", "0", "5">>,
      day |-> <<"S", "u", "n", "d", "a", "y">>],
     [date |-> <<"2", "0", "2", "6", "-", "1", "1", "-", "0", "2">>,
      time |-> <<"2", "3", ":", "5", "9">>,
      day |-> <<"M", "o", "n", "d", "a", "y">>]}

\* The employees, role templates, user names and project names checked:
\* unset, plain, and a name that is itself a placeholder.
InitComposition ==
    /\ NoRows
    /\ turn = NoTurn
    /\ personas = NoPersonas
    /\ suggestions = NoSuggestions
    /\ compaction = NoCompaction
    /\ context = NoContext
    /\ stream = NoStream
    /\ composition \in
          {[NoComposition EXCEPT !.employee = e, !.role_template = t,
                                 !.user_name = u, !.project_name = p] :
              e \in [name : {<<>>, composition_texts.quincy,
                             replacement_vars.user_name},
                     instructions : {<<>>, composition_texts.own_instructions,
                                     composition_texts.own_greeting},
                     user_instructions : {<<>>, composition_texts.user_addition,
                                          composition_texts.project_addition}],
              t \in {NoTemplate}
                    \cup [linked : {TRUE},
                          instructions : {<<>>, composition_texts.template_instructions}],
              u \in {<<>>, composition_texts.troy, replacement_vars.employee_name},
              p \in {<<>>, composition_texts.apollo, replacement_vars.day}}

\* chat: composed_instructions = compose_instructions(employee, role_template)
compose_call ==
    /\ composition.phase = "input"
    /\ composition' = [composition EXCEPT
          !.phase = "composed",
          !.composed_instructions =
              compose_instructions(composition.employee, composition.role_template)]
    /\ UNCHANGED <<vars, compaction, context, stream, turn, personas, suggestions>>

\* chat: base_instructions = replace_instruction_variables(...)
replace_call ==
    /\ composition.phase = "composed"
    /\ \E clock \in clocks :
          composition' = [composition EXCEPT
             !.phase = "substituted",
             !.base_instructions =
                 replace_instruction_variables(composition.composed_instructions,
                    composition.user_name, composition.employee.name,
                    composition.project_name, clock)]
    /\ UNCHANGED <<vars, compaction, context, stream, turn, personas, suggestions>>

\* GET /api/roles/employee/{id}/composed-instructions for the same employee,
\* at any time before, between or after the steps of the chat.
composed_instructions_call ==
    /\ ~composition.transparency.asked
    /\ composition' = [composition EXCEPT
          !.transparency =
              get_composed_instructions(composition.employee, composition.role_template)]
    /\ UNCHANGED <<vars, compaction, context, stream, turn, personas, suggestions>>

NextComposition ==
    \/ compose_call
    \/ replace_call
    \/ composed_instructions_call

SpecComposition == InitComposition /\ [][NextComposition]_<<vars, chat_vars>>

\* s ends with suffix
endswith(s, suffix) ==
    Len(suffix) <= Len(s) /\ startswith_at(s, suffix, Len(s) - Len(suffix) + 1)

\* The template's instructions can serve as the base.
template_has_instructions ==
    composition.role_template.linked /\ composition.role_template.instructions # <<>>

C16_UserLayerLast ==
    composition.phase # "input" =>
       LET out == composition.composed_instructions
           additions == composition.employee.user_instructions
           base_layer ==
               IF composition.employee.instructions # <<>>
               THEN composition.employee.instructions
               ELSE IF template_has_instructions
                    THEN composition.role_template.instructions
                    ELSE <<>>
           labelled == strip(ADDITIONAL_INSTRUCTIONS) \o <<"\n">> \o additions
       IN  /\ additions # <<>>
                => /\ startswith(out, base_layer)
                   /\ endswith(out, labelled)
                   /\ Len(out) >= Len(base_layer) + Len(labelled)
           /\ (additions = <<>> /\ base_layer = <<>>) => out = <<>>

\* C16 witness: an employee without instructions of its own, with a linked
\* template that has instructions and with user_instructions, has been
\* composed.
C16_Witness ==
    /\ composition.phase = "composed"
    /\ composition.employee.instructions = <<>>
    /\ template_has_instructions
    /\ composition.employee.user_instructions = composition_texts.user_addition

\* C17: after the substitution, a known placeholder that is not in the
\* composed text but is in a value substituted into it is in the result; a
\* placeholder outside the known ones that is in the composed text is in the
\* result; and an unset user name, employee name or project name gives what
\* 'User', 'Assistant' and the empty text give.
C17_NoRecursiveExpansion ==
    composition.phase = "substituted" =>
       LET text == composition.composed_instructions
           out == composition.base_instructions
           default_user == <<"U", "s", "e", "r">>
           default_employee == <<"A", "s", "s", "i", "s", "t", "a", "n", "t">>
           known_vars == {replacement_vars[k] : k \in DOMAIN replacement_vars}
           named ==
               {<<replacement_vars.user_name,
                  IF composition.user_name # <<>> THEN composition.user_name ELSE default_user>>,
                <<replacement_vars.employee_name,
                  IF composition.employee.name # <<>>
                  THEN composition.employee.name ELSE default_employee>>,
                <<replacement_vars.project_name, composition.project_name>>}
           substituted_values ==
               {item[2] : item \in {i \in named : contains(text, i[1])}}
       IN  /\ \A var \in known_vars :
                 (/\ ~contains(text, var)
                  /\ \E value \in substituted_values : contains(value, var))
                 => contains(out, var)
           /\ contains(text, composition_texts.mood_var)
                 => contains(out, composition_texts.mood_var)
           /\ (composition.user_name = <<>> /\ text = composition_texts.own_greeting)
                 => startswith(out, <<"H", "i", " ">> \o default_user)
           /\ (composition.employee.name = <<>>
               /\ text = composition_texts.own_instructions)
                 => contains(out, default_employee)
           /\ (/\ composition.project_name = <<>>
               /\ text = ADDITIONAL_INSTRUCTIONS \o composition_texts.project_addition)
                 => endswith(out, <<"U", "s", "e", " ", ".">>)

MaxMemories == 3

MaxPromptMemories == 2

\* The user who chats.
USER_ID == 1

\* The employees and the project of the user who chats, and of another user.
owned_ids(owner_id) ==
    IF owner_id = USER_ID
    THEN [employee_ids |-> {1, 2}, project_ids |-> {1}]
    ELSE [employee_ids |-> {3}, project_ids |-> {2}]

\* The employee the user chats with.
EMPLOYEE_ID == 1

\* data.content of the memories, in the order they are created.
memory_contents ==
    << <<"l", "i", "k", "e", "s", " ", "c", "o", "n", "c", "i", "s", "e",
         " ", "a", "n", "s", "w", "e", "r", "s">>,
       <<"p", "r", "e", "f", "e", "r", "s", " ", "t", "a", "b", "l", "e", "s">>,
       <<"w", "o", "r", "k", "s", " ", "i", "n", " ", "U", "T", "C">>,
       <<"a", "l", "w", "a", "y", "s", " ", "c", "i", "t", "e", "s">> >>

\* select(Memory.content) ... .order_by(Memory.created_at)
RECURSIVE order_by_created_at(_)
order_by_created_at(rows) ==
    IF rows = {} THEN <<>>
    ELSE LET first == CHOOSE r \in rows : \A q \in rows : r.created_at <= q.created_at
         IN  <<first.content>> \o order_by_created_at(rows \ {first})

\* The three queries: the owner's rows without employee and project, the
\* owner's rows of the employee and, when a project is given, the owner's
\* rows of the project.
get_memories_for_employee(memories, user_id, employee_id, project_id) ==
    LET shared_memories ==
            order_by_created_at({m \in memories :
                /\ m.owner_id = user_id
                /\ m.employee_id = 0
                /\ m.project_id = 0})
        role_memories ==
            order_by_created_at({m \in memories :
                m.owner_id = user_id /\ m.employee_id = employee_id})
        project_memories ==
            IF project_id # 0
            THEN order_by_created_at({m \in memories :
                    m.owner_id = user_id /\ m.project_id = project_id})
            ELSE <<>>
    IN  shared_memories \o role_memories \o project_memories

\* The character U+0060 of the fence lines; the string syntax of the module
\* language gives it a meaning of its own, so it is an atom with a name.
BACKTICK == "U+0060"

\* The headings chat puts before the sections of the system prompt.
section_headers ==
    [project_instructions |->
        <<"\n", "\n", "#", "#", " ", "P", "r", "o", "j", "e", "c", "t", "-",
          "S", "p", "e", "c", "i", "f", "i", "c", " ", "I", "n", "s", "t",
          "r", "u", "c", "t", "i", "o", "n", "s", ":", "\n">>,
     memory |->
        <<"\n", "\n", "#", "#", " ", "I", "m", "p", "o", "r", "t", "a", "n",
          "t", " ", "I", "n", "f", "o", "r", "m", "a", "t", "i", "o", "n",
          " ", "t", "o", " ", "R", "e", "m", "e", "m", "b", "e", "r", ":",
          "\n">>,
     project_files |->
        <<"\n", "\n", "#", "#", " ", "P", "r", "o", "j", "e", "c", "t", " ",
          "F", "i", "l", "e", "s", ":", "\n">>,
     uploaded_files |->
        <<"\n", "\n", "#", "#", " ", "U", "p", "l", "o", "a", "d", "e", "d",
          " ", "F", "i", "l", "e", "s", ":", "\n">>]

TOOLS_SYSTEM_PROMPT_ADDITION ==
    <<"\n", "\n", "#", "#", " ", "A", "v", "a", "i", "l", "a", "b", "l", "e",
      " ", "T", "o", "o", "l", "s", " ", "-", " ", "G", "o", "o", "g", "l",
      "e", " ", "S", "h", "e", "e", "t", "s", " ", "I", "n", "t", "e", "g",
      "r", "a", "t", "i", "o", "n", "\n", "Y", "o", "u", " ", "h", "a", "v",
      "e", " ", "a", "c", "c", "e", "s", "s", " ", "t", "o", " ", "G", "o",
      "o", "g", "l", "e", " ", "S", "h", "e", "e", "t", "s", ".", " ", "W",
      "h", "e", "n", " ", "t", "h", "e", " ", "u", "s", "e", "r", " ", "a",
      "s", "k", "s", " ", "y", "o", "u", " ", "t", "o", " ", "c", "r", "e",
      "a", "t", "e", " ", "s", "p", "r", "e", "a", "d", "s", "h", "e", "e",
      "t", "s", ",", " ", "r", "o", "a", "d", "m", "a", "p", "s", ",", " ",
      "o", "r", " ", "o", "r", "g", "a", "n", "i", "z", "e", " ", "d", "a",
      "t", "a", ",", " ", "u", "s", "e", " ", "t", "h", "e", "s", "e", " ",
      "t", "o", "o", "l", "s", " ", "p", "r", "o", "a", "c", "t", "i", "v",
      "e", "l", "y", ".", "\n", "\n", "*", "*", "C", "R", "I", "T", "I", "C",
      "A", "L", "*", "*", ":", " ", "Y", "o", "u", " ", "M", "U", "S", "T",
      " ", "w", "r", "a", "p", " ", "t", "h", "e", " ", "t", "o", "o", "l",
      " ", "c", "a", "l", "l", " ", "J", "S", "O", "N", " ", "i", "n", " ",
      "a", " ", "f", "e", "n", "c", "e", "d", " ", "c", "o", "d", "e", " ",
      "b", "l", "o", "c", "k", " ", "w", "i", "t", "h", " ", "t", "h", "e",
      " ", "l", "a", "n", "g", "u", "a", "g", "e", " ", "i", "d", "e", "n",
      "t", "i", "f", "i", "e", "r", " ", BACKTICK, "t", "o", "o", "l", "_", "c",
      "a", "l", "l", BACKTICK, ".", " ", "T", "h", "e", " ", "f", "o", "r", "m",
      "a", "t", " ", "m", "u", "s", "t", " ", "b", "e", " ", "e", "x", "a",
      "c", "t", "l", "y", ":", "\n", "\n", BACKTICK, BACKTICK, BACKTICK, "t", "o", "o", "l",
      "_", "c", "a", "l", "l", "\n", "{", "\"", "t", "o", "o", "l", "\"",
      ":", " ", "\"", "t", "o", "o", "l", "_", "n", "a", "m", "e", "\"", ",",
      " ", ".", ".", ".", "p", "a", "r", "a", "m", "s", "}", "\n", BACKTICK, BACKTICK,
      BACKTICK, "\n", "\n", "W", "i", "t", "h", "o", "u", "t", " ", "t", "h", "e",
      " ", "c", "o", "d", "e", " ", "f", "e", "n", "c", "e", ",", " ", "t",
      "h", "e", " ", "t", "o", "o", "l", " ", "w", "i", "l", "l", " ", "N",
      "O", "T", " ", "e", "x", "e", "c", "u", "t", "e", ".", "\n", "\n", "#",
      "#", "#", " ", "C", "r", "e", "a", "t", "e", " ", "G", "o", "o", "g",
      "l", "e", " ", "S", "h", "e", "e", "t", "\n", "C", "r", "e", "a", "t",
      "e", "s", " ", "a", " ", "n", "e", "w", " ", "s", "p", "r", "e", "a",
      "d", "s", "h", "e", "e", "t", " ", "i", "n", " ", "t", "h", "e", " ",
      "u", "s", "e", "r", "'", "s", " ", "G", "o", "o", "g", "l", "e", " ",
      "D", "r", "i", "v", "e", ".", " ", "R", "e", "t", "u", "r", "n", "s",
      " ", "t", "h", "e", " ", "s", "p", "r", "e", "a", "d", "s", "h", "e",
      "e", "t", "_", "i", "d", " ", "a", "n", "d", " ", "s", "h", "e", "e",
      "t", " ", "n", "a", "m", "e", "s", " ", "y", "o", "u", "'", "l", "l",
      " ", "n", "e", "e", "d", " ", "f", "o", "r", " ", "u", "p", "d", "a",
      "t", "e", "s", ".", "\n", "\n", "*", "*", "I", "m", "p", "o", "r", "t",
      "a", "n", "t", "*", "*", ":", " ", "U", "s", "e", " ", "s", "i", "m",
      "p", "l", "e", " ", "s", "h", "e", "e", "t", " ", "t", "a", "b", " ",
      "n", "a", "m", "e", "s", " ", "W", "I", "T", "H", "O", "U", "T", " ",
      "s", "p", "a", "c", "e", "s", ".", " ", "A", "v", "o", "i", "d", " ",
      "n", "a", "m", "e", "s", " ", "t", "h", "a", "t", " ", "l", "o", "o",
      "k", " ", "l", "i", "k", "e", " ", "c", "e", "l", "l", " ", "r", "e",
      "f", "e", "r", "e", "n", "c", "e", "s", " ", "(", "Q", "1", ",", " ",
      "A", "1", ",", " ", "B", "2", ")", ".", "\n", "\n", BACKTICK, BACKTICK, BACKTICK, "t",
      "o", "o", "l", "_", "c", "a", "l", "l", "\n", "{", "\"", "t", "o", "o",
      "l", "\"", ":", " ", "\"", "c", "r", "e", "a", "t", "e", "_", "g", "o",
      "o", "g", "l", "e", "_", "s", "h", "e", "e", "t", "\"", ",", " ", "\"",
      "t", "i", "t", "l", "e", "\"", ":", " ", "\"", "S", "p", "r", "e", "a",
      "d", "s", "h", "e", "e", "t", " ", "N", "a", "m", "e", "\"", ",", " ",
      "\"", "s", "h", "e", "e", "t", "s", "\"", ":", " ", "[", "\"", "O",
      "v", "e", "r", "v", "i", "e", "w", "\"", ",", " ", "\"", "P", "h", "a",
      "s", "e", "1", "\"", ",", " ", "\"", "P", "h", "a", "s", "e", "2",
      "\"", ",", " ", "\"", "F", "u", "t", "u", "r", "e", "\"", "]", "}",
      "\n", BACKTICK, BACKTICK, BACKTICK, "\n", "\n", "#", "#", "#", " ", "U", "p", "d",
      "a", "t", "e", " ", "G", "o", "o", "g", "l", "e", " ", "S", "h", "e",
      "e", "t", "\n", "W", "r", "i", "t", "e", "s", " ", "d", "a", "t", "a",
      " ", "t", "o", " ", "c", "e", "l", "l", "s", " ", "i", "n", " ", "a",
      "n", " ", "e", "x", "i", "s", "t", "i", "n", "g", " ", "s", "p", "r",
      "e", "a", "d", "s", "h", "e", "e", "t", ".", " ", "T", "h", "e", " ",
      BACKTICK, "v", "a", "l", "u", "e", "s", BACKTICK, " ", "p", "a", "r", "a", "m",
      "e", "t", "e", "r", " ", "i", "s", " ", "a", " ", "2", "D", " ", "a",
      "r", "r", "a", "y", " ", "w", "h", "e", "r", "e", " ", "e", "a", "c",
      "h", " ", "i", "n", "n", "e", "r", " ", "a", "r", "r", "a", "y", " ",
      "i", "s", " ", "a", " ", "r", "o", "w", ".", "\n", "\n", "*", "*", "C",
      "R", "I", "T", "I", "C", "A", "L", "*", "*", ":", "\n", "-", " ", "U",
      "s", "e", " ", "O", "N", "L", "Y", " ", "t", "h", "e", " ", "s", "t",
      "a", "r", "t", "i", "n", "g", " ", "c", "e", "l", "l", " ", "(", "e",
      ".", "g", ".", ",", " ", BACKTICK, "O", "v", "e", "r", "v", "i", "e", "w",
      "!", "A", "1", BACKTICK, ")", ",", " ", "N", "O", "T", " ", "a", " ", "f",
      "u", "l", "l", " ", "r", "a", "n", "g", "e", " ", "-", " ", "t", "h",
      "e", " ", "A", "P", "I", " ", "a", "u", "t", "o", "-", "e", "x", "p",
      "a", "n", "d", "s", "\n", "-", " ", "U", "s", "e", " ", "t", "h", "e",
      " ", "E", "X", "A", "C", "T", " ", "s", "h", "e", "e", "t", " ", "n",
      "a", "m", "e", "s", " ", "y", "o", "u", " ", "s", "p", "e", "c", "i",
      "f", "i", "e", "d", " ", "i", "n", " ", "t", "h", "e", " ", "c", "r",
      "e", "a", "t", "e", " ", "c", "a", "l", "l", "\n", "-", " ", "I", "f",
      " ", "y", "o", "u", " ", "c", "r", "e", "a", "t", "e", "d", " ", "[",
      "\"", "O", "v", "e", "r", "v", "i", "e", "w", "\"", ",", " ", "\"",
      "P", "h", "a", "s", "e", "1", "\"", "]", ",", " ", "u", "s", "e", " ",
      BACKTICK, "O", "v", "e", "r", "v", "i", "e", "w", "!", "A", "1", BACKTICK, " ",
      "a", "n", "d", " ", BACKTICK, "P", "h", "a", "s", "e", "1", "!", "A", "1",
      BACKTICK, "\n", "\n", BACKTICK, BACKTICK, BACKTICK, "t", "o", "o", "l", "_", "c", "a", "l",
      "l", "\n", "{", "\"", "t", "o", "o", "l", "\"", ":", " ", "\"", "u",
      "p", "d", "a", "t", "e", "_", "g", "o", "o", "g", "l", "e", "_", "s",
      "h", "e", "e", "t", "\"", ",", " ", "\"", "s", "p", "r", "e", "a", "d",
      "s", "h", "e", "e", "t", "_", "i", "d", "\"", ":", " ", "\"", "T", "H",
      "E", "_", "I", "D", "\"", ",", " ", "\"", "r", "a", "n", "g", "e",
      "\"", ":", " ", "\"", "O", "v", "e", "r", "v", "i", "e", "w", "!", "A",
      "1", "\"", ",", " ", "\"", "v", "a", "l", "u", "e", "s", "\"", ":",
      " ", "[", "[", "\"", "C", "o", "l", "1", "\"", ",", " ", "\"", "C",
      "o", "l", "2", "\"", "]", ",", " ", "[", "\"", "R", "o", "w", "1",
      "\"", ",", " ", "\"", "V", "a", "l", "1", "\"", "]", "]", "}", "\n",
      BACKTICK, BACKTICK, BACKTICK, "\n", "\n", "#", "#", "#", " ", "R", "e", "a", "d", " ",
      "G", "o", "o", "g", "l", "e", " ", "S", "h", "e", "e", "t", "\n", "R",
      "e", "a", "d", "s", " ", "d", "a", "t", "a", " ", "f", "r", "o", "m",
      " ", "a", " ", "s", "p", "r", "e", "a", "d", "s", "h", "e", "e", "t",
      ".", "\n", "\n", BACKTICK, BACKTICK, BACKTICK, "t", "o", "o", "l", "_", "c", "a", "l",
      "l", "\n", "{", "\"", "t", "o", "o", "l", "\"", ":", " ", "\"", "r",
      "e", "a", "d", "_", "g", "o", "o", "g", "l", "e", "_", "s", "h", "e",
      "e", "t", "\"", ",", " ", "\"", "s", "p", "r", "e", "a", "d", "s", "h",
      "e", "e", "t", "_", "i", "d", "\"", ":", " ", "\"", "a", "b", "c", "1",
      "2", "3", "\"", ",", " ", "\"", "r", "a", "n", "g", "e", "\"", ":",
      " ", "\"", "S", "h", "e", "e", "t", "1", "!", "A", "1", ":", "D", "1",
      "0", "\"", "}", "\n", BACKTICK, BACKTICK, BACKTICK, "\n", "\n", "#", "#", "#", " ",
      "I", "M", "P", "O", "R", "T", "A", "N", "T", ":", " ", "C", "o", "m",
      "p", "l", "e", "t", "e", " ", "W", "o", "r", "k", "f", "l", "o", "w",
      "\n", "W", "h", "e", "n", " ", "c", "r", "e", "a", "t", "i", "n", "g",
      " ", "a", " ", "s", "p", "r", "e", "a", "d", "s", "h", "e", "e", "t",
      ":", "\n", "1", ".", " ", "C", "r", "e", "a", "t", "e", " ", "w", "i",
      "t", "h", " ", "s", "i", "m", "p", "l", "e", " ", "t", "a", "b", " ",
      "n", "a", "m", "e", "s", ":", " ", "[", "\"", "O", "v", "e", "r", "v",
      "i", "e", "w", "\"", ",", " ", "\"", "P", "h", "a", "s", "e", "1",
      "\"", ",", " ", "\"", "P", "h", "a", "s", "e", "2", "\"", ",", " ",
      "\"", "F", "u", "t", "u", "r", "e", "\"", "]", "\n", "2", ".", " ",
      "I", "m", "m", "e", "d", "i", "a", "t", "e", "l", "y", " ", "u", "p",
      "d", "a", "t", "e", " ", "e", "a", "c", "h", " ", "t", "a", "b", " ",
      "w", "i", "t", "h", " ", "h", "e", "a", "d", "e", "r", "s", " ", "u",
      "s", "i", "n", "g", " ", "t", "h", "e", " ", "S", "A", "M", "E", " ",
      "n", "a", "m", "e", "s", " ", "y", "o", "u", " ", "c", "r", "e", "a",
      "t", "e", "d", "\n", "3", ".", " ", "A", "d", "d", " ", "c", "o", "n",
      "t", "e", "n", "t", " ", "t", "o", " ", "e", "a", "c", "h", " ", "t",
      "a", "b", "\n", "\n", "E", "x", "a", "m", "p", "l", "e", " ", "w", "o",
      "r", "k", "f", "l", "o", "w", ":", "\n", BACKTICK, BACKTICK, BACKTICK, "t", "o", "o",
      "l", "_", "c", "a", "l", "l", "\n", "{", "\"", "t", "o", "o", "l",
      "\"", ":", " ", "\"", "c", "r", "e", "a", "t", "e", "_", "g", "o", "o",
      "g", "l", "e", "_", "s", "h", "e", "e", "t", "\"", ",", " ", "\"", "t",
      "i", "t", "l", "e", "\"", ":", " ", "\"", "P", "r", "o", "d", "u", "c",
      "t", " ", "R", "o", "a", "d", "m", "a", "p", "\"", ",", " ", "\"", "s",
      "h", "e", "e", "t", "s", "\"", ":", " ", "[", "\"", "O", "v", "e", "r",
      "v", "i", "e", "w", "\"", ",", " ", "\"", "P", "h", "a", "s", "e", "1",
      "\"", ",", " ", "\"", "P", "h", "a", "s", "e", "2", "\"", "]", "}",
      "\n", BACKTICK, BACKTICK, BACKTICK, "\n", "T", "h", "e", "n", " ", "u", "p", "d", "a",
      "t", "e", " ", "u", "s", "i", "n", "g", " ", "t", "h", "e", " ", "e",
      "x", "a", "c", "t", " ", "s", "a", "m", "e", " ", "n", "a", "m", "e",
      "s", ":", "\n", BACKTICK, BACKTICK, BACKTICK, "t", "o", "o", "l", "_", "c", "a", "l",
      "l", "\n", "{", "\"", "t", "o", "o", "l", "\"", ":", " ", "\"", "u",
      "p", "d", "a", "t", "e", "_", "g", "o", "o", "g", "l", "e", "_", "s",
      "h", "e", "e", "t", "\"", ",", " ", "\"", "s", "p", "r", "e", "a", "d",
      "s", "h", "e", "e", "t", "_", "i", "d", "\"", ":", " ", "\"", ".", ".",
      ".", "\"", ",", " ", "\"", "r", "a", "n", "g", "e", "\"", ":", " ",
      "\"", "O", "v", "e", "r", "v", "i", "e", "w", "!", "A", "1", "\"", ",",
      " ", "\"", "v", "a", "l", "u", "e", "s", "\"", ":", " ", "[", "[",
      "\"", "P", "h", "a", "s", "e", "\"", ",", " ", "\"", "S", "t", "a",
      "t", "u", "s", "\"", ",", " ", "\"", "P", "r", "i", "o", "r", "i", "t",
      "y", "\"", "]", "]", "}", "\n", BACKTICK, BACKTICK, BACKTICK, "\n", "\n", "D", "o",
      " ", "N", "O", "T", " ", "u", "s", "e", " ", "d", "i", "f", "f", "e",
      "r", "e", "n", "t", " ", "n", "a", "m", "e", "s", " ", "i", "n", " ",
      "u", "p", "d", "a", "t", "e", " ", "t", "h", "a", "n", " ", "y", "o",
      "u", " ", "u", "s", "e", "d", " ", "i", "n", " ", "c", "r", "e", "a",
      "t", "e", ".", "\n">>

\* "\n".join(f"- {m}" for m in memories) behind its heading
memory_section(memories) ==
    section_headers.memory
    \o join(<<"\n">>, [i \in 1 .. Len(memories) |-> <<"-", " ">> \o memories[i]])

\* One block per file behind the heading: a "###" line with the filename,
\* then the content between two fence lines.
file_section(header, files) ==
    header \o flatten([i \in 1 .. Len(files) |->
        <<"\n", "#", "#", "#", " ">> \o files[i].filename
        \o <<"\n", BACKTICK, BACKTICK, BACKTICK, "\n">> \o files[i].content
        \o <<"\n", BACKTICK, BACKTICK, BACKTICK, "\n">>])

\* system_prompt + section if system_prompt else section.strip()
with_section(system_prompt, section) ==
    IF system_prompt # <<>> THEN system_prompt \o section ELSE strip(section)

\* The memory section is put before the project instructions.
build_memories_first(base_instructions, project_instruction_section, memories, project_id, files, google_refresh_token) ==
    LET with_memories ==
            IF memories # <<>>
            THEN with_section(base_instructions, memory_section(memories))
            ELSE base_instructions
        with_project ==
            IF project_instruction_section = <<>> THEN with_memories
            ELSE IF with_memories # <<>>
                 THEN with_memories \o section_headers.project_instructions
                         \o project_instruction_section
                 ELSE project_instruction_section
        with_files ==
            IF files # <<>>
            THEN with_section(with_project,
                    file_section(IF project_id # 0 THEN section_headers.project_files
                                 ELSE section_headers.uploaded_files, files))
            ELSE with_project
    IN  IF google_refresh_token
        THEN with_section(with_files, TOOLS_SYSTEM_PROMPT_ADDITION)
        ELSE with_files

\* chat, from system_prompt = base_instructions to the prompt handed to the
\* provider: project instructions, memories, files (the project's in a
\* project chat, the uploaded ones otherwise), tools text.
build_system_prompt(base_instructions, project_instruction_section, memories, project_id, files, google_refresh_token) ==
    LET with_project ==
            IF project_instruction_section = <<>> THEN base_instructions
            ELSE IF base_instructions # <<>>
                 THEN base_instructions \o section_headers.project_instructions
                         \o project_instruction_section
                 ELSE project_instruction_section
        with_memories ==
            IF memories # <<>>
            THEN with_section(with_project, memory_section(memories))
            ELSE with_project
        with_files ==
            IF files # <<>>
            THEN with_section(with_memories,
                    file_section(IF project_id # 0 THEN section_headers.project_files
                                 ELSE section_headers.uploaded_files, files))
            ELSE with_memories
    IN  IF google_refresh_token
        THEN with_section(with_files, TOOLS_SYSTEM_PROMPT_ADDITION)
        ELSE with_files

\* The texts of the rows checked: the employee's instructions, the
\* project's instructions as stored and with the project's name in the place
\* of the placeholder, a file, the prompt of instructions and one memory,
\* and the heading of the tools text.
context_texts ==
    [you_are_quincy |-> <<"Y", "o", "u", " ", "a", "r", "e", " ", "Q", "u",
                          "i", "n", "c", "y", ".">>,
     ship_weekly |->
        <<"S", "h", "i", "p", " ", "{", "{", "p", "r", "o", "j", "e", "c",
          "t", "_", "n", "a", "m", "e", "}", "}", " ", "w", "e", "e", "k",
          "l", "y", ".">>,
     ship_apollo_weekly |->
        <<"S", "h", "i", "p", " ", "A", "p", "o", "l", "l", "o", " ", "w",
          "e", "e", "k", "l", "y", ".">>,
     notes_file |->
        [filename |-> <<"n", ".", "m", "d">>, content |-> <<"T", "O", "D", "O">>],
     quincy_prompt |->
        <<"Y", "o", "u", " ", "a", "r", "e", " ", "Q", "u", "i", "n", "c",
          "y", ".", "\n", "\n", "#", "#", " ", "I", "m", "p", "o", "r", "t",
          "a", "n", "t", " ", "I", "n", "f", "o", "r", "m", "a", "t", "i",
          "o", "n", " ", "t", "o", " ", "R", "e", "m", "e", "m", "b", "e",
          "r", ":", "\n", "-", " ", "l", "i", "k", "e", "s", " ", "c", "o",
          "n", "c", "i", "s", "e", " ", "a", "n", "s", "w", "e", "r", "s">>,
     tools_heading |->
        <<"#", "#", " ", "A", "v", "a", "i", "l", "a", "b", "l", "e", " ",
          "T", "o", "o", "l", "s", " ", "-", " ", "G", "o", "o", "g", "l",
          "e", " ", "S", "h", "e", "e", "t", "s", " ", "I", "n", "t", "e",
          "g", "r", "a", "t", "i", "o", "n">>]

\* POST /api/memories: the employee and the project named have to be the
\* owner's; the row gets both ids.
create_memory(owner_id, employee_id, project_id) ==
    /\ context.phase = "rows"
    /\ Cardinality(context.memories) < MaxMemories
    /\ employee_id \in owned_ids(owner_id).employee_ids \cup {0}
    /\ project_id \in owned_ids(owner_id).project_ids \cup {0}
    /\ LET id == Cardinality(context.memories) + 1
       IN  context' = [context EXCEPT !.memories = @ \cup
              {[id |-> id, owner_id |-> owner_id, employee_id |-> employee_id,
                project_id |-> project_id, content |-> memory_contents[id],
                created_at |-> id]}]
    /\ UNCHANGED <<vars, compaction, composition, stream, turn, personas, suggestions>>

\* chat: memories = await get_memories_for_employee(db, user_id, employee.id,
\* project_id), for a direct chat (project_id 0) or a chat in a project.
chat_memories(project_id) ==
    /\ context.phase = "rows"
    /\ context' = [context EXCEPT
          !.phase = "memories",
          !.project_id = project_id,
          !.memories_for_employee =
              get_memories_for_employee(context.memories, USER_ID, EMPLOYEE_ID,
                                        project_id)]
    /\ UNCHANGED <<vars, compaction, composition, stream, turn, personas, suggestions>>

\* chat: the system prompt is built from the base instructions, the project's
\* instructions (with their variables replaced), the memories, the files and
\* the user's Drive connection.
chat_system_prompt ==
    /\ context.phase = "memories"
    /\ Cardinality(context.memories) <= MaxPromptMemories
    /\ \E base_instructions \in {<<>>, context_texts.you_are_quincy},
          project_instructions \in
             IF context.project_id # 0 THEN {<<>>, context_texts.ship_weekly}
             ELSE {<<>>},
          files \in {<<>>, <<context_texts.notes_file>>},
          google_refresh_token \in BOOLEAN,
          clock \in clocks :
          context' = [context EXCEPT
             !.phase = "assembled",
             !.base_instructions = base_instructions,
             !.project_instructions = project_instructions,
             !.files = files,
             !.google_refresh_token = google_refresh_token,
             !.system_prompt =
                 build_system_prompt(base_instructions,
                    replace_instruction_variables(project_instructions,
                       composition_texts.troy, composition_texts.quincy,
                       composition_texts.apollo, clock),
                    context.memories_for_employee, context.project_id, files,
                    google_refresh_token)]
    /\ UNCHANGED <<vars, compaction, composition, stream, turn, personas, suggestions>>

\* Memories are created by the user who chats and by another user (id 2),
\* for any employee and project id; the chat is direct or in the user's
\* project.
NextContext ==
    \/ \E owner_id \in {USER_ID, 2}, employee_id \in 0 .. 3,
          project_id \in 0 .. 2 :
          create_memory(owner_id, employee_id, project_id)
    \/ \E project_id \in {0} \cup owned_ids(USER_ID).project_ids :
          chat_memories(project_id)
    \/ chat_system_prompt

SpecContext == Init /\ [][NextContext]_<<vars, chat_vars>>

\* C18: every entry of the list is a visible memory of the owner, every
\* visible memory of the owner is listed once, and the entries come shared
\* first, then the employee's, then the project's, whatever the order of
\* creation.  Visible are the owner's memories that are shared, or of the
\* employee, or of the project when the chat is in a project; the group of a
\* memory is 1 for shared, 2 for the employee's, 3 for the project's.
C18_MemoryList ==
    context.phase # "rows" =>
       LET listed == context.memories_for_employee
           visible_memories ==
               {m \in context.memories :
                   /\ m.owner_id = USER_ID
                   /\ \/ m.employee_id = 0 /\ m.project_id = 0
                      \/ m.employee_id = EMPLOYEE_ID
                      \/ context.project_id # 0 /\ m.project_id = context.project_id}
           scope_rank(m) ==
               IF m.employee_id = 0 /\ m.project_id = 0 THEN 1
               ELSE IF m.employee_id = EMPLOYEE_ID THEN 2 ELSE 3
           memory_of(content) == CHOOSE m \in context.memories : m.content = content
       IN  /\ \A i \in 1 .. Len(listed) :
                 \E m \in visible_memories : m.content = listed[i]
           /\ \A m \in visible_memories :
                 Cardinality({i \in 1 .. Len(listed) : listed[i] = m.content}) = 1
           /\ \A i, j \in 1 .. Len(listed) :
                 i < j => scope_rank(memory_of(listed[i]))
                             <= scope_rank(memory_of(listed[j]))

\* The first position of p in s, 0 when p is not in s.
find(s, p) ==
    IF contains(s, p)
    THEN least({i \in 1 .. Len(s) - Len(p) + 1 : startswith_at(s, p, i)})
    ELSE 0

\* The tools text as it is when it is the whole prompt.
TOOLS_STRIPPED == strip(TOOLS_SYSTEM_PROMPT_ADDITION)

\* The sections of the prompt before the tools text, in their order: whether
\* the input of the section is there, the text the section has to show, and
\* the heading that must not show without the input.
prompt_sections ==
    << [present |-> context.base_instructions # <<>>,
        text |-> context.base_instructions,
        heading |-> context_texts.you_are_quincy],
       [present |-> context.project_instructions # <<>>,
        text |-> context_texts.ship_apollo_weekly,
        heading |-> strip(section_headers.project_instructions)],
       [present |-> context.memories_for_employee # <<>>,
        text |-> strip(section_headers.memory),
        heading |-> strip(section_headers.memory)],
       [present |-> context.files # <<>>,
        text |-> strip(IF context.project_id # 0 THEN section_headers.project_files
                       ELSE section_headers.uploaded_files)
                 \o <<"\n", "\n", "#", "#", "#", " ">>
                 \o context_texts.notes_file.filename,
        heading |-> <<"F", "i", "l", "e", "s", ":">>] >>

\* The tools text is at the end of the prompt exactly when the user has a
\* Drive connection; before it (in the body), a section shows exactly when
\* its input is there, the sections that show follow each other in the order
\* of prompt_sections without overlap, the instructions come first and every
\* memory has its line; and the prompt of the example is as stated.
prompt_in_order ==
    LET out == context.system_prompt
        body == IF ~context.google_refresh_token THEN out
                ELSE IF Len(out) > Len(TOOLS_SYSTEM_PROMPT_ADDITION)
                     THEN SubSeq(out, 1, Len(out) - Len(TOOLS_SYSTEM_PROMPT_ADDITION))
                     ELSE <<>>
        sections == prompt_sections
    IN  /\ context.google_refresh_token
              => \/ out = body \o TOOLS_SYSTEM_PROMPT_ADDITION /\ body # <<>>
                 \/ out = TOOLS_STRIPPED
        /\ ~context.google_refresh_token
              => ~contains(out, context_texts.tools_heading)
        /\ \A k \in 1 .. Len(sections) :
              /\ sections[k].present => contains(body, sections[k].text)
              /\ ~sections[k].present => ~contains(body, sections[k].heading)
        /\ \A k, n \in 1 .. Len(sections) :
              (k < n /\ sections[k].present /\ sections[n].present)
              => find(body, sections[k].text) + Len(sections[k].text)
                    <= find(body, sections[n].text)
        /\ startswith(out, context.base_instructions)
        /\ \A i \in 1 .. Len(context.memories_for_employee) :
              contains(body, <<"-", " ">> \o context.memories_for_employee[i])
        /\ (/\ context.base_instructions = context_texts.you_are_quincy
            /\ context.memories_for_employee = <<memory_contents[1]>>
            /\ context.project_instructions = <<>>
            /\ context.files = <<>>
            /\ ~context.google_refresh_token)
           => out = context_texts.quincy_prompt

\* C19 as stated: the sections are in order, each only with its input, and
\* with no memories and no files the prompt is the instructions string.
C19_PromptAssembly ==
    context.phase = "assembled" =>
       /\ prompt_in_order
       /\ (context.memories_for_employee = <<>> /\ context.files = <<>>)
          => context.system_prompt = context.base_instructions

\* C19, amended: the sections are in order, each only with its input, and
\* with no memories, no files, no project instructions and no Drive
\* connection the prompt is the instructions string.
C19_PromptSections ==
    context.phase = "assembled" =>
       /\ prompt_in_order
       /\ (/\ context.memories_for_employee = <<>>
           /\ context.files = <<>>
           /\ context.project_instructions = <<>>
           /\ ~context.google_refresh_token)
          => context.system_prompt = context.base_instructions

\* C19 witness: a prompt with all five sections has been built.
C19_Witness ==
    /\ context.phase = "assembled"
    /\ \A k \in 1 .. Len(prompt_sections) : prompt_sections[k].present
    /\ context.google_refresh_token
    /\ Len(context.memories_for_employee) = 2

\* C29: when the chat is in a project that has instructions, the system
\* prompt starts with the base instructions and has, after them, the heading
\* 'Project-Specific Instructions' followed by the project's instructions
\* with their variables replaced, whatever the base instructions are; in
\* every other chat the heading is not in the prompt.
C29_ProjectSection ==
    context.phase = "assembled" =>
       LET out == context.system_prompt
           heading == strip(section_headers.project_instructions)
           labelled == heading \o <<"\n">> \o context_texts.ship_apollo_weekly
       IN  IF context.project_id # 0 /\ context.project_instructions # <<>>
           THEN /\ startswith(out, context.base_instructions)
                /\ contains(out, labelled)
                /\ find(out, labelled) > Len(context.base_instructions)
           ELSE ~contains(out, heading)

\* ---------------------------------------------------------------------
\* Streamed responses (routes_chat.py: stream_openai_response,
\* stream_anthropic_response)
\* ---------------------------------------------------------------------

\* The chunks a provider delivers at most in one stream.
MaxChunks == 4

\* The events a generator yields, each followed by a blank line, are
\* "data: " + json.dumps({'content': text}), a record with event "content",
\* "data: " + json.dumps({'error': str(e)}), a record with event "error",
\* and "data: [DONE]":
DONE == [event |-> "[DONE]", data |-> <<>>]

\* str(e) of the exception of a provider.
PROVIDER_ERROR ==
    <<"C", "o", "n", "n", "e", "c", "t", "i", "o", "n", " ", "e", "r", "r",
      "o", "r", ".">>

\* The handler yields the error event and the end marker after it.
except_then_done(events, e) == events \o <<[event |-> "error", data |-> e], DONE>>

\* except Exception as e: yield the error event; the generator ends.
except_exception(events, e) == Append(events, [event |-> "error", data |-> e])

\* The event of a chunk: OpenAI's chunks without content yield nothing.
chunk_events(provider, text) ==
    IF provider = "openai" /\ text = <<>> THEN <<>>
    ELSE <<[event |-> "content", data |-> text]>>

\* chat returns StreamingResponse(stream_openai_response(...)) or
\* StreamingResponse(stream_anthropic_response(...)).
streaming_response(provider) ==
    /\ stream.pc = "idle"
    /\ stream' = [stream EXCEPT !.pc = "try", !.provider = provider]
    /\ UNCHANGED <<vars, compaction, composition, context, turn, personas, suggestions>>

\* client.chat.completions.create(..., stream=True) / client.messages.stream(...)
\* returns the stream, or raises: the handler yields the error event.
provider_call(ok) ==
    /\ stream.pc = "try"
    /\ stream' = [stream EXCEPT
          !.provider_calls = @ + 1,
          !.pc = IF ok THEN "for" ELSE "closed",
          !.raised = ~ok,
          !.events = IF ok THEN @ ELSE except_exception(@, PROVIDER_ERROR)]
    /\ UNCHANGED <<vars, compaction, composition, context, turn, personas, suggestions>>

\* for chunk in stream: one chunk arrives and its event is yielded.
next_chunk(text) ==
    /\ stream.pc = "for"
    /\ Len(stream.chunks) < MaxChunks
    /\ stream' = [stream EXCEPT
          !.chunks = Append(@, text),
          !.events = @ \o chunk_events(stream.provider, text)]
    /\ UNCHANGED <<vars, compaction, composition, context, turn, personas, suggestions>>

\* The iteration raises (network, rate limit, a chunk the code cannot read):
\* the handler yields the error event.
chunk_raises ==
    /\ stream.pc = "for"
    /\ stream' = [stream EXCEPT
          !.pc = "closed",
          !.raised = TRUE,
          !.events = except_exception(@, PROVIDER_ERROR)]
    /\ UNCHANGED <<vars, compaction, composition, context, turn, personas, suggestions>>

\* The stream is exhausted: yield "data: [DONE]\n\n"; the generator ends.
stream_done ==
    /\ stream.pc = "for"
    /\ stream' = [stream EXCEPT !.pc = "closed", !.events = Append(@, DONE)]
    /\ UNCHANGED <<vars, compaction, composition, context, turn, personas, suggestions>>

\* The text of a chunk: delta.content of OpenAI may be empty or None (the
\* empty text); the texts of Anthropic's text_stream are what it sends.
NextStream ==
    \/ \E provider \in {"openai", "anthropic"} : streaming_response(provider)
    \/ \E ok \in BOOLEAN : provider_call(ok)
    \/ \E text \in {<<>>, <<"H", "i">>, <<"!">>} : next_chunk(text)
    \/ chunk_raises
    \/ stream_done

SpecStream == Init /\ [][NextStream]_<<vars, chat_vars>>

\* The content events the chunks delivered so far have to give, in order.
RECURSIVE expected_content(_, _)
expected_content(provider, chunks) ==
    IF chunks = <<>> THEN <<>>
    ELSE (IF provider = "openai" /\ Head(chunks) = <<>> THEN <<>>
          ELSE <<[event |-> "content", data |-> Head(chunks)]>>)
         \o expected_content(provider, Tail(chunks))

\* C20: the events of a response are the content events of the chunks in the
\* order of arrival, followed by no terminal event while the generator runs
\* and by exactly one when it has ended: the error event when the provider
\* raised, the end marker otherwise; and the provider is called once at most.
C20_OneTerminalEvent ==
    LET events == stream.events
        terminal_events ==
            {i \in 1 .. Len(events) : events[i].event \in {"[DONE]", "error"}}
        content == SubSeq(events, 1, Len(events) - Cardinality(terminal_events))
    IN  /\ content = expected_content(stream.provider, stream.chunks)
        /\ terminal_events \subseteq {Len(events)}
        /\ stream.pc = "closed" <=> terminal_events # {}
        /\ stream.pc = "closed"
              => events[Len(events)] =
                    IF stream.raised
                    THEN [event |-> "error", data |-> PROVIDER_ERROR] ELSE DONE
        /\ stream.provider_calls <= 1
        /\ stream.raised => stream.pc = "closed"

\* C20 witness: the provider raised after two content events, and the
\* generator has ended.
C20_Witness ==
    /\ stream.pc = "closed"
    /\ stream.raised
    /\ Len(stream.events) = 3
    /\ stream.events[1].event = "content"
    /\ stream.events[2].event = "content"

----------------------------------------------------------------------------
(* A chat turn (routes_chat.py, chat)                                      *)

\* A faulty get_provider_for_model, for comparison: only the Claude models
\* of the table of context limits are routed to Anthropic.
get_provider_for_known_model(model) ==
    IF startswith(model, CLAUDE_PREFIX) /\ get_model_context_limit(model) = 200000
    THEN "anthropic" ELSE "openai"

\* get_provider_for_model
get_provider_for_model(model) ==
    IF startswith(model, CLAUDE_PREFIX) THEN "anthropic" ELSE "openai"

\* Model identifiers a chat can name: two of the table of
\* get_model_context_limit, three that are not in it.
model_ids ==
    [gpt_4 |-> <<"g", "p", "t", "-", "4">>,
     opus |-> <<"c", "l", "a", "u", "d", "e", "-", "3", "-", "o", "p", "u", "s",
           "-", "l", "a", "t", "e", "s", "t">>,
     claude_2 |-> <<"c", "l", "a", "u", "d", "e", "-", "2">>,
     mistral |-> <<"m", "i", "s", "t", "r", "a", "l", "-", "l", "a", "r", "g", "e">>,
     capital |-> <<"C", "l", "a", "u", "d", "e", "-", "3">>]

\* POST /api/chat by the logged-in user, up to the StreamingResponse it
\* returns or the exception it raises.  Employee 1 has the default model,
\* employee 2 the empty model that PUT /api/employees/2 with model "" has
\* stored; project_id 0 is None, 9 the id of no row.
\* decrypt_ok = FALSE is a stored key that Fernet cannot decrypt.  log_usage
\* inserts a usage_logs row whose project_id is a foreign key of projects:
\* with the id of no row its commit raises, which the route answers with 500.
chat(employee_id, project_id, model_override, decrypt_ok) ==
    /\ user.exists
    /\ turn.pc = "idle"
    /\ LET found == employee_id \in owned_ids(USER_ID).employee_ids
           model == IF model_override # <<>> THEN model_override
                    ELSE IF employee_id = EMPLOYEE_ID THEN model_ids.gpt_4
                    ELSE <<>>
           provider == get_provider_for_model(model)
           stored == IF provider = "openai" THEN user.openai_api_key
                     ELSE user.anthropic_api_key
           api_key == IF decrypt_ok THEN decrypt_api_key(stored) ELSE ""
           project_found == project_id \in owned_ids(USER_ID).project_ids
           project_exists ==
               project_found \/ project_id \in owned_ids(USER_ID + 1).project_ids
           received == [turn EXCEPT
               !.request = [employee_id |-> employee_id, project_id |-> project_id,
                            model_override |-> model_override]]
           selected == [received EXCEPT
               !.db_user = user, !.model = model, !.provider = provider]
           prepared == [selected EXCEPT
               !.api_key = api_key,
               !.max_tokens = token_budget(8000, model),
               !.project_found = project_found]
       IN  turn' =
              IF ~found
              THEN [received EXCEPT !.pc = "raised", !.status_code = 404]
              ELSE IF stored = <<>>
              THEN [selected EXCEPT !.pc = "raised", !.status_code = 402]
              ELSE IF api_key = ""
              THEN [selected EXCEPT !.pc = "raised", !.status_code = 500]
              ELSE IF project_id # 0 /\ ~project_exists
              THEN [prepared EXCEPT !.pc = "raised", !.status_code = 500]
              ELSE [prepared EXCEPT
                      !.pc = "streaming", !.status_code = 200,
                      !.usage_logs = Append(@,
                          [employee_id |-> employee_id, project_id |-> project_id,
                           model |-> model, provider |-> provider])]
    /\ UNCHANGED <<vars, compaction, composition, context, stream, personas, suggestions>>

\* The generator of the StreamingResponse runs: stream_openai_response or
\* stream_anthropic_response calls its provider with the key it was given.
stream_response ==
    /\ turn.pc = "streaming"
    /\ turn' = [turn EXCEPT
          !.pc = "streamed",
          !.provider_calls = Append(@,
              [provider |-> turn.provider, api_key |-> turn.api_key,
               model |-> turn.model])]
    /\ UNCHANGED <<vars, compaction, composition, context, stream, personas, suggestions>>

NextTurn ==
    \/ \E team_ok \in BOOLEAN :
          google_callback(team_ok)
          /\ UNCHANGED <<compaction, composition, context, stream, turn, suggestions>>
    \/ \E o \in {"None", "", OPENAI_KEY}, a \in {"None", "", ANTHROPIC_KEY} :
          update_api_keys(o, a) /\ UNCHANGED chat_vars
    \/ \E employee_id \in {1, 2, 3, 9}, project_id \in {0, 1, 2, 9},
          model_override \in {<<>>} \cup {model_ids[k] : k \in DOMAIN model_ids},
          decrypt_ok \in BOOLEAN :
          chat(employee_id, project_id, model_override, decrypt_ok)
    \/ stream_response

SpecTurn == Init /\ [][NextTurn]_<<vars, chat_vars>>

\* C21: once a chat request is answered, an employee that is missing or
\* another user's, a project that is missing or another user's, and a missing
\* key of the selected provider have each given an error answer, and no
\* provider call is made for the turn; a project_id that names no project of
\* the caller never leaves the turn running as a turn without project.
C21_ErrorsBeforeProvider ==
    LET r == turn.request
        employee_ok == r.employee_id \in owned_ids(USER_ID).employee_ids
        project_ok == r.project_id = 0 \/ r.project_id \in owned_ids(USER_ID).project_ids
        stored == IF turn.provider = "openai" THEN turn.db_user.openai_api_key
                  ELSE turn.db_user.anthropic_api_key
    IN  turn.pc # "idle" =>
           /\ ~employee_ok => turn.status_code = 404 /\ turn.provider_calls = <<>>
           /\ (employee_ok /\ stored = <<>>)
                 => turn.status_code = 402 /\ turn.provider_calls = <<>>
           /\ ~project_ok => turn.status_code >= 400 /\ turn.provider_calls = <<>>
           /\ turn.provider_calls # <<>> => turn.status_code = 200

\* C25: the provider of a turn is Anthropic when the model identifier
\* begins with "claude" and OpenAI for every other identifier, known or not,
\* and no identifier is refused; request processing (call_ai,
\* get_api_key_for_model) routes every identifier to the same provider and
\* takes the same key; and a provider is called with the key stored for it.
C25_ProviderSelection ==
    LET begins_with_claude(model) ==
            /\ Len(model) >= 6
            /\ \A i \in 1 .. 6 : model[i] = <<"c", "l", "a", "u", "d", "e">>[i]
        provider_of(model) == IF begins_with_claude(model) THEN "anthropic" ELSE "openai"
        key_of(provider) == IF provider = "anthropic" THEN ANTHROPIC_KEY ELSE OPENAI_KEY
        stored == IF turn.provider = "openai" THEN turn.db_user.openai_api_key
                  ELSE turn.db_user.anthropic_api_key
    IN  /\ \A k \in DOMAIN model_ids :
              /\ get_provider_for_model(model_ids[k]) = provider_of(model_ids[k])
              /\ get_provider_for_model(model_ids[k]) = call_ai_provider(model_ids[k])
        /\ turn.provider # "none" =>
              /\ turn.provider = provider_of(turn.model)
              /\ turn.provider = call_ai_provider(turn.model)
              /\ turn.status_code = 402 <=> stored = <<>>
              /\ turn.status_code \in {200, 402, 500}
        /\ \A i \in 1 .. Len(turn.provider_calls) :
              LET call == turn.provider_calls[i]
              IN  /\ call.provider = provider_of(call.model)
                  /\ call.api_key = key_of(call.provider)
                  /\ call.api_key = get_api_key_for_model(turn.db_user, call.model)

\* C25 witness: a turn with a model identifier that no table knows has called
\* OpenAI with the user's OpenAI key, the user having both keys.
C25_Witness ==
    /\ turn.pc = "streamed"
    /\ turn.model = model_ids.mistral
    /\ turn.db_user.anthropic_api_key # <<>>
    /\ turn.provider_calls =
          <<[provider |-> "openai", api_key |-> OPENAI_KEY, model |-> model_ids.mistral]>>

\* C28 as stated: the budget of a turn is 70% of the context window of its
\* model when the model is in the table of context limits, and 8000 tokens
\* when it is not.
C28_BudgetDefault8000 ==
    LET known == turn.model \in {model_ids.gpt_4, model_ids.opus}
        window == IF turn.model = model_ids.opus THEN 200000 ELSE 8192
    IN  turn.max_tokens # 0 =>
           turn.max_tokens = IF known THEN (window * 7) \div 10 ELSE 8000

\* C28: the budget of a turn is 70% of the context window of its model,
\* rounded down, where a model that is not in the table has the window of
\* 8192 tokens (a budget of 5734); the budget is 8000 tokens only when the
\* model identifier is empty.
C28_Budget ==
    LET window == IF turn.model = model_ids.opus THEN 200000 ELSE 8192
    IN  turn.max_tokens # 0 =>
           turn.max_tokens = IF turn.model = <<>> THEN 8000
                             ELSE (window * 7) \div 10

\* C28 witness: a turn with a model that is not in the table is answered
\* with 200 and has the budget 5734.
C28_Witness ==
    /\ turn.status_code = 200
    /\ turn.model = model_ids.mistral
    /\ turn.max_tokens = 5734

----------------------------------------------------------------------------
(* Memory suggestions (routes_memory_suggestions.py).  The id of a          *)
(* suggestion is its position in the rows; resolved_at 0 is None.  Each     *)
(* request is handled to its commit before the next one is looked at.       *)

\* The suggestions created, and the approve and reject requests made.
MaxSuggestions == 2
MaxResolutions == 3

\* What approve and reject do to a pending suggestion of the session:
\* "memory = Memory(...); db.add(memory)" on approval, then status and
\* resolved_at = datetime.utcnow() are set.
resolved(session, sid, status) ==
    [session EXCEPT
       !.rows[sid].status = status,
       !.rows[sid].resolved_at = session.utcnow,
       !.memories =
           IF status = "approved"
           THEN Append(@, [employee_id |-> session.rows[sid].employee_id,
                           project_id |-> session.rows[sid].project_id,
                           content |-> session.rows[sid].content,
                           category |-> session.rows[sid].category])
           ELSE @,
       !.answer.done = Append(@, sid)]

\* The loop of bulk_approve_suggestions (status "approved") and of
\* bulk_reject_suggestions (status "rejected") over suggestion_ids, on the
\* objects of the session: a suggestion that is missing or not pending goes to
\* failed, another is resolved.
RECURSIVE bulk_resolve(_, _, _)
bulk_resolve(suggestion_ids, status, session) ==
    IF suggestion_ids = <<>> THEN session
    ELSE LET sid == Head(suggestion_ids)
         IN  bulk_resolve(Tail(suggestion_ids), status,
                IF \/ sid \notin 1 .. Len(session.rows)
                   \/ session.rows[sid].status # "pending"
                THEN [session EXCEPT !.answer.failed = Append(@, sid)]
                ELSE resolved(session, sid, status))

\* POST /api/memory-suggestions: 404 unless the employee is the user's.
create_memory_suggestion(data) ==
    /\ Len(suggestions.rows) < MaxSuggestions
    /\ suggestions' =
          IF data.employee_id \notin owned_ids(USER_ID).employee_ids
          THEN [suggestions EXCEPT
                  !.answer = [status_code |-> 404, done |-> <<>>, failed |-> <<>>]]
          ELSE [suggestions EXCEPT
                  !.answer = [status_code |-> 200, done |-> <<>>, failed |-> <<>>],
                  !.rows = Append(@, [employee_id |-> data.employee_id,
                                      project_id |-> data.project_id,
                                      content |-> data.content,
                                      category |-> data.category,
                                      status |-> "pending", resolved_at |-> 0])]
    /\ UNCHANGED <<vars, compaction, composition, context, stream, turn, personas>>

\* A faulty approve and reject, for comparison: a suggestion that is not
\* pending is resolved again.
resolve_again(suggestion_id, status) ==
    /\ suggestions.utcnow <= MaxResolutions
    /\ LET called == [suggestions EXCEPT
                        !.answer = [status_code |-> 200, done |-> <<>>, failed |-> <<>>]]
       IN  suggestions' =
              IF suggestion_id \notin 1 .. Len(suggestions.rows)
              THEN [called EXCEPT !.utcnow = @ + 1, !.answer.status_code = 404]
              ELSE [resolved(called, suggestion_id, status) EXCEPT !.utcnow = @ + 1]
    /\ UNCHANGED <<vars, compaction, composition, context, stream, turn, personas>>

\* POST /api/memory-suggestions/{id}/approve and .../reject: 404 for an id of
\* no row, 400 for a suggestion that is not pending; else the suggestion is
\* resolved and the commit made.
resolve_memory_suggestion(suggestion_id, status) ==
    /\ suggestions.utcnow <= MaxResolutions
    /\ LET called == [suggestions EXCEPT
                        !.answer = [status_code |-> 200, done |-> <<>>, failed |-> <<>>]]
       IN  suggestions' =
              IF suggestion_id \notin 1 .. Len(suggestions.rows)
              THEN [called EXCEPT !.utcnow = @ + 1, !.answer.status_code = 404]
              ELSE IF suggestions.rows[suggestion_id].status # "pending"
              THEN [called EXCEPT !.utcnow = @ + 1, !.answer.status_code = 400]
              ELSE [resolved(called, suggestion_id, status) EXCEPT !.utcnow = @ + 1]
    /\ UNCHANGED <<vars, compaction, composition, context, stream, turn, personas>>

\* POST /api/memory-suggestions/bulk-approve and .../bulk-reject.
bulk_resolve_suggestions(suggestion_ids, status) ==
    /\ suggestions.utcnow <= MaxResolutions
    /\ suggestions' =
          [bulk_resolve(suggestion_ids, status,
              [suggestions EXCEPT
                 !.answer = [status_code |-> 200, done |-> <<>>, failed |-> <<>>]])
           EXCEPT !.utcnow = @ + 1]
    /\ UNCHANGED <<vars, compaction, composition, context, stream, turn, personas>>

NextSuggestions ==
    \/ \E data \in {[employee_id |-> 1, project_id |-> 0, content |-> "likes tea",
                     category |-> ""],
                    [employee_id |-> 2, project_id |-> 1, content |-> "ships weekly",
                     category |-> "preference"],
                    [employee_id |-> 3, project_id |-> 0, content |-> "likes tea",
                     category |-> ""]} :
          create_memory_suggestion(data)
    \/ \E suggestion_id \in {1, 2, 9}, status \in {"approved", "rejected"} :
          resolve_memory_suggestion(suggestion_id, status)
    \/ \E suggestion_ids \in {<<1>>, <<1, 1>>, <<1, 2>>, <<2, 9, 2>>, <<2, 1, 1>>},
          status \in {"approved", "rejected"} :
          bulk_resolve_suggestions(suggestion_ids, status)

SpecSuggestions == Init /\ [][NextSuggestions]_<<vars, chat_vars>>

\* C23: a suggestion is pending without resolved_at, or approved or rejected
\* with one; one that is approved or rejected is never changed again; a
\* pending one changes only to approved or rejected with resolved_at set, its
\* other fields kept; a step adds one Memory for each suggestion it approves,
\* with the suggestion's employee, project, content and category, and none
\* for a rejection or a refused request.
C23_ResolvedOnce ==
    /\ [](\A i \in 1 .. Len(suggestions.rows) :
             /\ suggestions.rows[i].status \in {"pending", "approved", "rejected"}
             /\ suggestions.rows[i].status = "pending"
                   <=> suggestions.rows[i].resolved_at = 0)
    /\ [](Len(suggestions.memories)
             = Cardinality({i \in 1 .. Len(suggestions.rows) :
                               suggestions.rows[i].status = "approved"}))
    /\ [][LET rows == suggestions.rows
              new_rows == suggestions'.rows
              memories == suggestions.memories
              new_memories == suggestions'.memories
              approved_now ==
                  {i \in 1 .. Len(rows) :
                      rows[i].status = "pending" /\ new_rows[i].status = "approved"}
              fields(row) ==
                  [employee_id |-> row.employee_id, project_id |-> row.project_id,
                   content |-> row.content, category |-> row.category]
          IN  /\ Len(new_rows) >= Len(rows)
              /\ \A i \in 1 .. Len(rows) :
                    /\ rows[i].status # "pending" => new_rows[i] = rows[i]
                    /\ new_rows[i] # rows[i] =>
                          /\ new_rows[i].status \in {"approved", "rejected"}
                          /\ new_rows[i].resolved_at = suggestions.utcnow
                          /\ new_rows[i] = [rows[i] EXCEPT
                                              !.status = new_rows[i].status,
                                              !.resolved_at = new_rows[i].resolved_at]
              /\ Len(new_memories) = Len(memories) + Cardinality(approved_now)
              /\ SubSeq(new_memories, 1, Len(memories)) = memories
              /\ \A i \in approved_now :
                    Cardinality({k \in Len(memories) + 1 .. Len(new_memories) :
                                    new_memories[k] = fields(rows[i])})
                    = Cardinality({k \in approved_now : fields(rows[k]) = fields(rows[i])})
         ]_<<vars, chat_vars>>

\* C23 witness: two suggestions with the same content, the first approved and
\* the second rejected, after a bulk request that named an id twice and found
\* it resolved the second time; one Memory exists.
C23_Witness ==
    /\ Len(suggestions.rows) = 2
    /\ suggestions.rows[1].status = "approved"
    /\ suggestions.rows[2].status = "rejected"
    /\ suggestions.rows[1].content = suggestions.rows[2].content
    /\ suggestions.rows[1].resolved_at < suggestions.rows[2].resolved_at
    /\ suggestions.answer.done = <<2>>
    /\ suggestions.answer.failed = <<1, 1>>
    /\ Len(suggestions.memories) = 1

----------------------------------------------------------------------------
(* Employees and role templates (routes_employees.py, routes_roles.py,      *)
(* database.py).  Each request is handled to its commit before the next.    *)

\* The employees rows ever created, and the starts of the application.
MaxEmployees == 3
MaxSeeds == 2

\* ROLE_TEMPLATES_V1: of the eight built-in templates, the one with
\* "is_default": True and one without.
ROLE_TEMPLATES_V1 ==
    [slug \in {"project-manager", "qa-engineer"} |->
        IF slug = "project-manager"
        THEN [name |-> <<"Project Manager">>, is_default |-> TRUE]
        ELSE [name |-> <<"QA Engineer">>, is_default |-> FALSE]]

\* select(Employee).where(Employee.id == employee_id, Employee.owner_id ==
\* user_id): the position of the row, 0 for None.
select_employee(employee_id) ==
    LET found == {i \in 1 .. Len(personas.employees) :
                     personas.employees[i].id = employee_id}
    IN  IF found = {} THEN 0 ELSE CHOOSE i \in found : TRUE

\* init_db at a start of the application whose code holds the given edition
\* of ROLE_TEMPLATES_V1: a template without row is inserted with version 1,
\* a template with a row gets the edition's content and version + 1.
seed_role_templates(edition) ==
    /\ \A slug \in DOMAIN ROLE_TEMPLATES_V1 :
          personas.role_templates[slug].version < MaxSeeds
    /\ personas' = [personas EXCEPT
          !.role_templates =
              [slug \in DOMAIN ROLE_TEMPLATES_V1 |->
                  IF @[slug].version = 0
                  THEN [version |-> 1, instructions |-> <<slug, edition>>,
                        is_default |-> ROLE_TEMPLATES_V1[slug].is_default]
                  ELSE [@[slug] EXCEPT !.version = @ + 1,
                                       !.instructions = <<slug, edition>>]]]
    /\ UNCHANGED <<vars, compaction, composition, context, stream, turn, suggestions>>

\* POST /api/employees
create_employee(data) ==
    /\ user.exists
    /\ personas.created < MaxEmployees
    /\ personas' = [personas EXCEPT
          !.created = @ + 1,
          !.answer = [status_code |-> 201, employee_id |-> 0, update_available |-> FALSE],
          !.employees = Append(@,
              [id |-> personas.created + 1, name |-> data.name,
               instructions |-> data.instructions,
               role_template |-> <<>>, role_template_version |-> 0,
               is_default |-> FALSE])]
    /\ UNCHANGED <<vars, compaction, composition, context, stream, turn, suggestions>>

\* POST /api/roles/templates/{template_id}/create-employee; name <<>> is None.
create_employee_from_template(template_id, name) ==
    /\ user.exists
    /\ personas.created < MaxEmployees
    /\ LET template == personas.role_templates[template_id[1]]
       IN  personas' =
              IF template.version = 0
              THEN [personas EXCEPT
                      !.answer = [status_code |-> 404, employee_id |-> 0, update_available |-> FALSE]]
              ELSE [personas EXCEPT
                      !.created = @ + 1,
                      !.answer = [status_code |-> 200, employee_id |-> 0, update_available |-> FALSE],
                      !.employees = Append(@,
                          [id |-> personas.created + 1,
                           name |-> IF name # <<>> THEN name
                                    ELSE ROLE_TEMPLATES_V1[template_id[1]].name,
                           instructions |-> template.instructions,
                           role_template |-> template_id,
                           role_template_version |-> template.version,
                           is_default |-> template.is_default])]
    /\ UNCHANGED <<vars, compaction, composition, context, stream, turn, suggestions>>

\* POST /api/roles/employee/{employee_id}/clone
clone_employee(employee_id, new_name) ==
    /\ user.exists
    /\ personas.created < MaxEmployees
    /\ LET i == select_employee(employee_id)
           original == personas.employees[i]
       IN  personas' =
              IF i = 0
              THEN [personas EXCEPT
                      !.answer = [status_code |-> 404, employee_id |-> 0, update_available |-> FALSE]]
              ELSE [personas EXCEPT
                      !.created = @ + 1,
                      !.answer = [status_code |-> 200, employee_id |-> 0, update_available |-> FALSE],
                      !.employees = Append(@,
                          [original EXCEPT
                             !.id = personas.created + 1,
                             !.name = IF new_name # <<>> THEN new_name
                                      ELSE Append(original.name, " (Copy)"),
                             !.is_default = FALSE])]
    /\ UNCHANGED <<vars, compaction, composition, context, stream, turn, suggestions>>

\* PUT /api/employees/{employee_id}; a field <<>> or <<"", 0>> is None.
update_employee(employee_id, data) ==
    /\ user.exists
    /\ LET i == select_employee(employee_id)
           employee == personas.employees[i]
       IN  personas' =
              IF i = 0
              THEN [personas EXCEPT
                      !.answer = [status_code |-> 404, employee_id |-> 0, update_available |-> FALSE]]
              ELSE IF /\ employee.is_default
                      /\ data.name # <<>>
                      /\ data.name # <<"Project Manager">>
              THEN [personas EXCEPT
                      !.answer = [status_code |-> 400, employee_id |-> 0, update_available |-> FALSE]]
              ELSE [personas EXCEPT
                      !.answer = [status_code |-> 200, employee_id |-> 0, update_available |-> FALSE],
                      !.employees[i].name =
                          IF data.name # <<>> THEN data.name ELSE @,
                      !.employees[i].instructions =
                          IF data.instructions # <<"", 0>> THEN data.instructions ELSE @]
    /\ UNCHANGED <<vars, compaction, composition, context, stream, turn, suggestions>>

\* DELETE /api/employees/{employee_id}
delete_employee(employee_id) ==
    /\ user.exists
    /\ LET i == select_employee(employee_id)
       IN  personas' =
              IF i = 0
              THEN [personas EXCEPT
                      !.answer = [status_code |-> 404, employee_id |-> 0, update_available |-> FALSE]]
              ELSE IF personas.employees[i].is_default
              THEN [personas EXCEPT
                      !.answer = [status_code |-> 400, employee_id |-> 0, update_available |-> FALSE]]
              ELSE [personas EXCEPT
                      !.answer = [status_code |-> 204, employee_id |-> 0, update_available |-> FALSE],
                      !.employees = SubSeq(@, 1, i - 1) \o SubSeq(@, i + 1, Len(@))]
    /\ UNCHANGED <<vars, compaction, composition, context, stream, turn, suggestions>>

\* POST /api/roles/employee/{employee_id}/reset-to-template
reset_employee_to_template(employee_id) ==
    /\ user.exists
    /\ LET i == select_employee(employee_id)
           employee == personas.employees[i]
           template == personas.role_templates[employee.role_template[1]]
       IN  personas' =
              IF i = 0
              THEN [personas EXCEPT
                      !.answer = [status_code |-> 404, employee_id |-> 0, update_available |-> FALSE]]
              ELSE IF employee.role_template = <<>>
              THEN [personas EXCEPT
                      !.answer = [status_code |-> 400, employee_id |-> 0, update_available |-> FALSE]]
              ELSE [personas EXCEPT
                      !.answer = [status_code |-> 200, employee_id |-> 0, update_available |-> FALSE],
                      !.employees[i].instructions = template.instructions,
                      !.employees[i].role_template_version = template.version]
    /\ UNCHANGED <<vars, compaction, composition, context, stream, turn, suggestions>>

\* A faulty test of get_employee_template_info, for comparison: an equal
\* version counts as an update.
update_available_or_equal(role_template_version, version) ==
    role_template_version <= (IF version = 0 THEN 1 ELSE version)

\* (employee.role_template_version or 0) < (template.version or 1)
update_available(role_template_version, version) ==
    role_template_version < (IF version = 0 THEN 1 ELSE version)

\* GET /api/roles/employee/{employee_id}/template-info
get_employee_template_info(employee_id) ==
    /\ user.exists
    /\ LET i == select_employee(employee_id)
           employee == personas.employees[i]
       IN  personas' = [personas EXCEPT
              !.answer =
                  [status_code |-> IF i = 0 THEN 404 ELSE 200,
                   employee_id |-> employee_id,
                   update_available |->
                       /\ i # 0
                       /\ employee.role_template # <<>>
                       /\ update_available(employee.role_template_version,
                             personas.role_templates[employee.role_template[1]].version)]]
    /\ UNCHANGED <<vars, compaction, composition, context, stream, turn, suggestions>>

NextPersonas ==
    \/ \E team_ok \in BOOLEAN :
          google_callback(team_ok)
          /\ UNCHANGED <<compaction, composition, context, stream, turn, suggestions>>
    \/ \E edition \in 1 .. MaxSeeds : seed_role_templates(edition)
    \/ create_employee([name |-> <<"Pat">>, instructions |-> <<"custom", 0>>])
    \/ \E slug \in DOMAIN ROLE_TEMPLATES_V1, name \in {<<>>, <<"Pat">>} :
          create_employee_from_template(<<slug>>, name)
    \/ \E employee_id \in 1 .. MaxEmployees + 1 : clone_employee(employee_id, <<>>)
    \/ \E employee_id \in 1 .. MaxEmployees + 1,
          data \in [name : {<<>>, <<"Project Manager">>, <<"Pat">>},
                    instructions : {<<"", 0>>, <<"custom", 0>>}] :
          update_employee(employee_id, data)
    \/ \E employee_id \in 1 .. MaxEmployees + 1 : delete_employee(employee_id)
    \/ \E employee_id \in 1 .. MaxEmployees + 1 : reset_employee_to_template(employee_id)
    \/ \E employee_id \in 1 .. MaxEmployees + 1 : get_employee_template_info(employee_id)

SpecPersonas == Init /\ [][NextPersonas]_<<vars, chat_vars>>

\* C22: the user never has more than one employee with is_default set, and
\* an employee with is_default set is in the table, with is_default set,
\* after every step.
C22_OneDefault ==
    /\ [](Cardinality({i \in 1 .. Len(personas.employees) :
                          personas.employees[i].is_default}) <= 1)
    /\ [][\A i \in 1 .. Len(personas.employees) :
             personas.employees[i].is_default
             => \E k \in 1 .. Len(personas'.employees) :
                   /\ personas'.employees[k].id = personas.employees[i].id
                   /\ personas'.employees[k].is_default
         ]_<<vars, chat_vars>>

\* C24: in every step, a template's version does not decrease and increases
\* when its row changes; a step that changes a template changes no employee;
\* an employee's template link is kept and its captured version changes, or
\* its instructions become a template's text, only by becoming the current
\* version and instructions of its template; and the answer to a
\* template-info request says update_available exactly when the employee has
\* a template and its captured version is lower than the template's.
C24_NoAutoApply ==
    [][LET templates == personas.role_templates
           employees == personas.employees
           new_employees == personas'.employees
           asked == personas'.answer.employee_id
           lagging(employee) ==
               /\ employee.role_template # <<>>
               /\ employee.role_template_version
                     < templates[employee.role_template[1]].version
       IN  /\ \A slug \in DOMAIN templates :
                 /\ personas'.role_templates[slug].version >= templates[slug].version
                 /\ personas'.role_templates[slug] # templates[slug]
                       => personas'.role_templates[slug].version > templates[slug].version
           /\ personas'.role_templates # templates => new_employees = employees
           /\ \A i \in 1 .. Len(employees), k \in 1 .. Len(new_employees) :
                 new_employees[k].id = employees[i].id =>
                    LET old == employees[i]
                        new == new_employees[k]
                    IN  /\ new.role_template = old.role_template
                        /\ (\/ new.role_template_version # old.role_template_version
                            \/ /\ new.instructions # old.instructions
                               /\ new.instructions[2] # 0)
                              => /\ old.role_template # <<>>
                                 /\ new.instructions
                                       = templates[old.role_template[1]].instructions
                                 /\ new.role_template_version
                                       = templates[old.role_template[1]].version
           /\ (asked # 0 /\ personas'.role_templates = templates)
                 => /\ new_employees = employees
                    /\ personas'.answer.update_available
                          <=> \E i \in 1 .. Len(employees) :
                                 employees[i].id = asked /\ lagging(employees[i])
      ]_<<vars, chat_vars>>

\* C24 witness: the templates were seeded again after two employees took the
\* first version of one; the older employee has been reset to the second
\* version and edition, its copy still has the first, and a template-info
\* request for the copy says update_available.
C24_Witness ==
    \E i, k \in 1 .. Len(personas.employees) :
       LET reset == personas.employees[i]
           copy == personas.employees[k]
       IN  /\ reset.id < copy.id
           /\ reset.role_template = <<"qa-engineer">>
           /\ copy.role_template = <<"qa-engineer">>
           /\ personas.role_templates["qa-engineer"].version = 2
           /\ personas.role_templates["qa-engineer"].instructions = <<"qa-engineer", 2>>
           /\ reset.role_template_version = 2
           /\ reset.instructions = <<"qa-engineer", 2>>
           /\ copy.role_template_version = 1
           /\ copy.instructions = <<"qa-engineer", 1>>
           /\ personas.answer =
                 [status_code |-> 200, employee_id |-> copy.id, update_available |-> TRUE]

====
